---------------------------- MODULE Spec2Model ----------------------------
(***************************************************************************)
(* Model of the pysegy scan engine (src/pysegy/scan.py): the per-file      *)
(* shot segmentation of _scan_file / _scan_file_async, the header iterator *)
(* _iter_trace_headers_async with its as_completed hand-over, and the      *)
(* multi-file merge of segy_scan.                                          *)
(*                                                                         *)
(* A header buffer is a record from field name to the big-endian bytes     *)
(* stored at that field's offset; struct.unpack is modelled byte by byte.  *)
(*                                                                         *)
(* The header and sample codec (src/pysegy/read.py, src/pysegy/write.py,   *)
(* src/python/ibm.py) is modelled on byte strings, with write_block and    *)
(* read_file on top of it.                                                 *)
(***************************************************************************)
EXTENDS Integers, Sequences, FiniteSets, TLC

(***************************************************************************)
(* Bounds of the model.                                                    *)
(***************************************************************************)
\* longest trace list of the file scanned in single-path mode
MaxTraces == 3
\* largest chunk argument (traces per read)
MaxChunk == 2
\* largest workers argument (semaphore of the header iterator)
MaxWorkers == 2
\* most files a directory listing matches
MaxFiles == 2
\* largest threads argument (file-level thread pool)
MaxThreads == 2
\* most samples per trace of a block that is written
MaxSamples == 2

(***************************************************************************)
(* Layout constants.                                                       *)
(***************************************************************************)
\* bytes before the first trace: textual plus binary file header
FileHeaderBytes == 3600
\* bytes of one trace header
TraceHeaderBytes == 240
\* bytes of one sample
SampleBytes == 4

depth_key == "SourceDepth"

\* TH_INT32_FIELDS: the trace-header fields stored on 4 bytes; every other
\* field is 2 bytes wide
TH_INT32_FIELDS ==
    {"TraceNumWithinLine", "TraceNumWithinFile", "FieldRecord",
     "TraceNumber", "EnergySourcePoint", "CDP", "CDPTrace", "Offset",
     "RecGroupElevation", "SourceSurfaceElevation", "SourceDepth",
     "RecDatumElevation", "SourceDatumElevation", "SourceWaterDepth",
     "GroupWaterDepth", "SourceX", "SourceY", "GroupX", "GroupY", "CDPX",
     "CDPY", "Inline3D", "Crossline3D", "ShotPoint",
     "TransductionConstnatMantissa", "SourceEnergyDirectionMantissa",
     "SourceMeasurmentMantissa", "Unassigned1", "Unassigned2"}

\* the binary file-header fields of the model (all but Job, Line, Reel are
\* 2 bytes wide)
FH_FIELDS == {"ns", "dt"}

(***************************************************************************)
(* struct.unpack(">i") and struct.unpack(">h"): big-endian two's           *)
(* complement.                                                             *)
(***************************************************************************)
SignedTop(b) == IF b >= 128 THEN b - 256 ELSE b

Int32(b) == SignedTop(b[1]) * 16777216 + b[2] * 65536 + b[3] * 256 + b[4]

Int16(b) == SignedTop(b[1]) * 256 + b[2]

\* _parse_header(buf, keys): the requested fields of one trace header
_parse_header(buf, keys) ==
    [k \in keys |-> IF k \in TH_INT32_FIELDS THEN Int32(buf[k]) ELSE Int16(buf[k])]

\* end of the last field of the file-header table
\* (NumberOfExtTextualHeaders, 2 bytes at 3504)
FH_END == 3506

\* what a call leaves when struct.unpack raises on a short buffer
StructError == [error |-> "struct.error"]

\* read_fileheader(f) with every field requested succeeds when f.read(3600)
\* returns the bytes of every field of the table
HeaderReadable(file) == file.hdr.len >= FH_END

\* read_fileheader(f): the textual header and every binary field; bytes of the
\* binary block that belong to no field are not part of the result
read_fileheader(file) ==
    IF ~HeaderReadable(file) THEN StructError
    ELSE [th  |-> file.hdr.text,
          bfh |-> [k \in FH_FIELDS |-> Int16(file.hdr[k])]]

\* trace_keys of _scan_file: the shot key fields, then the extra keys
trace_keys(keys) == {"SourceX", "SourceY", depth_key} \cup keys

trace_size(ns) == TraceHeaderBytes + ns * SampleBytes

\* f.tell() after f.seek(0, SEEK_END)
FileSize(file) ==
    IF file.hdr.len < FileHeaderBytes THEN file.hdr.len
    ELSE FileHeaderBytes + Len(file.traces) * trace_size(Int16(file.hdr.ns)) + file.tail

\* total = (f.tell() - 3600) // (240 + ns * 4)
TotalTraces(file) ==
    (FileSize(file) - FileHeaderBytes) \div trace_size(read_fileheader(file).bfh.ns)

(***************************************************************************)
(* Shot keys and their order (Python tuple comparison).                    *)
(***************************************************************************)
None == <<>>

ShotOf(th) == <<th["SourceX"], th["SourceY"], th[depth_key]>>

ShotLess(a, b) ==
    \/ a[1] < b[1]
    \/ a[1] = b[1] /\ a[2] < b[2]
    \/ a[1] = b[1] /\ a[2] = b[2] /\ a[3] < b[3]

ShotLeq(a, b) == a = b \/ ShotLess(a, b)


(***************************************************************************)
(* Stable sort by shot: sorted(..., key=lambda r: r.shot) and              *)
(* records.sort(key=lambda r: r.shot).  Python's sort is stable, so the    *)
(* result is the one insertion after the last element with key <= r.shot.  *)
(***************************************************************************)
InsertByShot(sorted, r) ==
    LET after == {i \in 1..Len(sorted) : ShotLeq(sorted[i].shot, r.shot)}
        k == Cardinality(after)
    IN  SubSeq(sorted, 1, k) \o <<r>> \o SubSeq(sorted, k + 1, Len(sorted))

\* SortByShot without the sort: first-appearance order
SortByShot_Unsorted(recs) == recs

RECURSIVE SortByShot(_)
SortByShot(recs) ==
    IF recs = <<>> THEN <<>>
    ELSE InsertByShot(SortByShot(SubSeq(recs, 1, Len(recs) - 1)), recs[Len(recs)])

(***************************************************************************)
(* _update_summary(summary, th, keys): running (min, max) per extra key.   *)
(***************************************************************************)
EmptySummary == [k \in {} |-> <<0, 0>>]

\* _update_summary whose maximum is never raised
_update_summary_MinOnly(summary, th, keys) ==
    [k \in (DOMAIN summary) \cup keys |->
        IF k \notin keys THEN summary[k]
        ELSE IF k \in DOMAIN summary
             THEN <<IF th[k] < summary[k][1] THEN th[k] ELSE summary[k][1],
                    summary[k][2]>>
             ELSE <<th[k], th[k]>>]

_update_summary(summary, th, keys) ==
    [k \in (DOMAIN summary) \cup keys |->
        IF k \notin keys THEN summary[k]
        ELSE IF k \in DOMAIN summary
             THEN <<IF th[k] < summary[k][1] THEN th[k] ELSE summary[k][1],
                    IF th[k] > summary[k][2] THEN th[k] ELSE summary[k][2]>>
             ELSE <<th[k], th[k]>>]

(***************************************************************************)
(* The body of the segmentation loop of _scan_file and _scan_file_async    *)
(* for one (offset, th) pair.  The records dictionary is the sequence of   *)
(* its values in insertion order.                                          *)
(***************************************************************************)
ShotRecord(path, shot, segments, summary, ns, dt) ==
    [path |-> path, shot |-> shot, segments |-> segments,
     summary |-> summary, ns |-> ns, dt |-> dt]

\* records.get(src): position of the record of src, 0 for None
RecordIndex(records, src) ==
    IF \E i \in 1..Len(records) : records[i].shot = src
    THEN CHOOSE i \in 1..Len(records) : records[i].shot = src
    ELSE 0

\* records[previous].segments.append((seg_start, seg_count))
AppendSegment(records, shot, seg) ==
    [records EXCEPT ![RecordIndex(records, shot)].segments = Append(@, seg)]

NewScan == [records |-> <<>>, previous |-> None, seg_start |-> 0, seg_count |-> 0]

\* ConsumeHeader that keeps seg_start when the source position changes
ConsumeHeader_KeepStart(s, path, fh, offset, th, keys) ==
    LET src   == ShotOf(th)
        recs1 == IF RecordIndex(s.records, src) = 0
                 THEN Append(s.records,
                             ShotRecord(path, src, <<>>, EmptySummary, fh.bfh.ns, fh.bfh.dt))
                 ELSE s.records
        recs2 == [recs1 EXCEPT ![RecordIndex(recs1, src)].summary =
                                    _update_summary(@, th, keys)]
    IN  IF s.previous = None
        THEN [records |-> recs2, previous |-> src, seg_start |-> offset, seg_count |-> 1]
        ELSE IF src = s.previous
        THEN [records |-> recs2, previous |-> s.previous,
              seg_start |-> s.seg_start, seg_count |-> s.seg_count + 1]
        ELSE [records |-> AppendSegment(recs2, s.previous, <<s.seg_start, s.seg_count>>),
              previous |-> src, seg_start |-> s.seg_start, seg_count |-> 1]

\* ConsumeHeader that drops the open segment when the source position changes
ConsumeHeader_NoClose(s, path, fh, offset, th, keys) ==
    LET src   == ShotOf(th)
        recs1 == IF RecordIndex(s.records, src) = 0
                 THEN Append(s.records,
                             ShotRecord(path, src, <<>>, EmptySummary, fh.bfh.ns, fh.bfh.dt))
                 ELSE s.records
        recs2 == [recs1 EXCEPT ![RecordIndex(recs1, src)].summary =
                                    _update_summary(@, th, keys)]
    IN  IF s.previous = None
        THEN [records |-> recs2, previous |-> src, seg_start |-> offset, seg_count |-> 1]
        ELSE IF src = s.previous
        THEN [records |-> recs2, previous |-> s.previous,
              seg_start |-> s.seg_start, seg_count |-> s.seg_count + 1]
        ELSE [records |-> recs2,
              previous |-> src, seg_start |-> offset, seg_count |-> 1]

\* the loop body of _scan_file and of _scan_file_async for one (offset, th)
ConsumeHeader(s, path, fh, offset, th, keys) ==
    LET src   == ShotOf(th)
        recs1 == IF RecordIndex(s.records, src) = 0
                 THEN Append(s.records,
                             ShotRecord(path, src, <<>>, EmptySummary, fh.bfh.ns, fh.bfh.dt))
                 ELSE s.records
        recs2 == [recs1 EXCEPT ![RecordIndex(recs1, src)].summary =
                                    _update_summary(@, th, keys)]
    IN  IF s.previous = None
        THEN [records |-> recs2, previous |-> src, seg_start |-> offset, seg_count |-> 1]
        ELSE IF src = s.previous
        THEN [records |-> recs2, previous |-> s.previous,
              seg_start |-> s.seg_start, seg_count |-> s.seg_count + 1]
        ELSE [records |-> AppendSegment(recs2, s.previous, <<s.seg_start, s.seg_count>>),
              previous |-> src, seg_start |-> offset, seg_count |-> 1]

\* CloseScan that forgets the segment still open at the end of the loop
CloseScan_NoFinalSegment(s) == SortByShot(s.records)

\* after the loop: the final segment, then the records sorted by shot
CloseScan(s) ==
    SortByShot(IF s.previous # None
               THEN AppendSegment(s.records, s.previous, <<s.seg_start, s.seg_count>>)
               ELSE s.records)

SegyScan(fh, records) == [fileheader |-> fh, records |-> records]

SeisBlock(fh, headers, data) ==
    [fileheader |-> fh, traceheaders |-> headers, data |-> data]

(***************************************************************************)
(* Sequential scan: _iter_trace_headers yields the headers of each chunk   *)
(* in index order (pool.map keeps the order of its input), and _scan_file  *)
(* folds the segmentation loop over them.                                  *)
(***************************************************************************)
Min(a, b) == IF a < b THEN a ELSE b

\* the header buffer that f.read hands to slice i (from 0) of the chunk at pos
SliceAt(file, ns, pos, i) ==
    file.traces[(pos - FileHeaderBytes) \div trace_size(ns) + i + 1]

RECURSIVE _iter_trace_headers(_, _, _, _, _, _)
_iter_trace_headers(file, start, count, ns, keys, chunk) ==
    IF count <= 0 THEN <<>>
    ELSE LET n == Min(chunk, count)
         IN  [i \in 1..n |->
                 <<start + (i - 1) * trace_size(ns),
                   _parse_header(SliceAt(file, ns, start, i - 1), keys)>>]
             \o _iter_trace_headers(file, start + n * trace_size(ns), count - n,
                                    ns, keys, chunk)

RECURSIVE FoldHeaders(_, _, _, _, _)
FoldHeaders(s, path, fh, hdrs, keys) ==
    IF hdrs = <<>> THEN s
    ELSE FoldHeaders(ConsumeHeader(s, path, fh, hdrs[1][1], hdrs[1][2], keys),
                     path, fh, Tail(hdrs), keys)

_scan_file(file, keys, chunk) ==
    LET fh == read_fileheader(file)
        hdrs == _iter_trace_headers(file, FileHeaderBytes, TotalTraces(file),
                                    fh.bfh.ns, trace_keys(keys), chunk)
    IN  IF fh = StructError THEN StructError
        ELSE SegyScan(fh, CloseScan(FoldHeaders(NewScan, file.path, fh, hdrs, keys)))

(***************************************************************************)
(* State.                                                                  *)
(*   files   the files segy_scan works on, in sorted path order (path i is *)
(*           the i-th name of the sorted listing), never written           *)
(*   cfg     the arguments of segy_scan                                    *)
(*   task    per file, the frame of its _scan_file_async coroutine         *)
(*   scans   the list `scans` of segy_scan, in as_completed order          *)
(*   outcome what segy_scan returned or raised                             *)
(*   handles the file handles that are open: who opened each and on what   *)
(*   call    the frame of a read_shot, read_headers or read_traces call    *)
(***************************************************************************)
VARIABLES files, cfg, task, scans, outcome, handles, call

vars == <<files, cfg, task, scans, outcome, handles, call>>

Files == 1..Len(files)

(***************************************************************************)
(* Inputs.                                                                 *)
(***************************************************************************)
\* a 4-byte big-endian word holding a small non-negative number
Word(x) == <<0, 0, 0, x>>

\* the 4-byte word 0xFFFFFFFF
AllOnes == <<255, 255, 255, 255>>

TraceBuffer(sx, sy, sd, gx) ==
    [SourceX |-> sx, SourceY |-> sy, SourceDepth |-> sd, GroupX |-> gx]

\* header buffers of the single-path scans: shots (1,1,0), (2,2,0), (1,-1,0),
\* each with GroupX 1 or -1
TraceBuffers ==
    {TraceBuffer(k[1], k[2], Word(0), gx) :
        k \in {<<Word(1), Word(1)>>, <<Word(2), Word(2)>>, <<Word(1), AllOnes>>},
        gx \in {Word(1), AllOnes}}

TraceLists(n) == UNION {[1..k -> TraceBuffers] : k \in 0..n}

\* trace lists of the files of a directory: no trace, one shot, two shots
\* met in descending key order
DirTraceLists ==
    {<<>>,
     <<TraceBuffer(Word(1), Word(1), Word(0), Word(1))>>,
     <<TraceBuffer(Word(2), Word(2), Word(0), AllOnes),
       TraceBuffer(Word(1), Word(1), Word(0), Word(1))>>}

\* the first 3600 bytes of a file: the textual header, the ns and dt fields
\* and the bytes of the binary block that no field covers
HeaderBytes(text, ns, unassigned) ==
    [text |-> text, ns |-> <<0, ns>>, dt |-> <<15, 160>>, unassigned |-> unassigned,
     len |-> FileHeaderBytes]

\* a file of no bytes at all
EmptyFileBytes ==
    [text |-> "", ns |-> <<>>, dt |-> <<>>, unassigned |-> 0, len |-> 0]

\* a reference header and three variants: other text, other ns, other
\* unassigned bytes
DirHeaders ==
    {HeaderBytes("A", 1, 0), HeaderBytes("B", 1, 0),
     HeaderBytes("A", 2, 0), HeaderBytes("A", 1, 1)}

\* what a file of a directory holds: a header and a trace list, or nothing
DirContents ==
    (DirHeaders \X DirTraceLists) \cup {<<EmptyFileBytes, <<>>>>}

\* trailing bytes after the last whole trace: none, or a header without samples
Tails == {0, TraceHeaderBytes}

ExtraKeySets == {{}, {"GroupX"}, {"SourceX", "GroupX"}}

File(path, hdr, traces, tail) ==
    [path |-> path, hdr |-> hdr, traces |-> traces, tail |-> tail]

Queued ==
    [pc |-> "queued", fh |-> None, ns |-> 0, pos |-> 0, remaining |-> 0, n |-> 0,
     pending |-> {}, scan |-> NewScan, yielded |-> <<>>, result |-> None]

Running == [status |-> "running", scan |-> None]

\* segy_scan(path) with path a file
InitFile ==
    /\ \/ \E t \in TraceLists(MaxTraces), tl \in Tails :
             files = <<File(1, HeaderBytes("A", 1, 0), t, tl)>>
       \/ files = <<File(1, EmptyFileBytes, <<>>, 0)>>
    /\ \E k \in ExtraKeySets, c \in 1..MaxChunk, w \in 1..MaxWorkers :
          cfg = [mode |-> "file", keys |-> k, chunk |-> c, workers |-> w, threads |-> 1]
    /\ task = [f \in Files |-> Queued]
    /\ scans = <<>>
    /\ outcome = Running
    /\ handles = {}
    /\ call = None

\* segy_scan(directory, pattern) with 0..MaxFiles matching files
InitDir ==
    /\ \E n \in 0..MaxFiles :
          \E c \in [1..n -> DirContents] :
              files = [i \in 1..n |-> File(i, c[i][1], c[i][2], 0)]
    /\ \E th \in 1..MaxThreads :
          cfg = [mode |-> "dir", keys |-> {"GroupX"}, chunk |-> MaxChunk,
                 workers |-> MaxWorkers, threads |-> th]
    /\ task = [f \in Files |-> Queued]
    /\ scans = <<>>
    /\ outcome = Running
    /\ handles = {}
    /\ call = None

(***************************************************************************)
(* _scan_file_async and _iter_trace_headers_async.                         *)
(***************************************************************************)
\* a semaphore that lets every task of the chunk in
Holders_Unbounded(pending, workers) == pending

\* the parse_one tasks inside the semaphore: tasks enter in creation order,
\* so the holders are the `workers` lowest indices still to complete
Holders(pending, workers) ==
    {i \in pending : Cardinality({j \in pending : j < i}) < workers}

\* a chunk that takes every remaining trace at once
ChunkSize_Whole(remaining) == IF remaining > 0 THEN remaining ELSE 0

\* n = min(chunk, remaining) and the tasks created for the chunk
ChunkSize(remaining) == IF remaining > 0 THEN Min(cfg.chunk, remaining) ELSE 0

\* an open file handle: the operation that opened it and the path
Handle(owner, path) == [owner |-> owner, path |-> path]

\* OpenScan that keeps the handle open when read_fileheader raises
OpenScan_LeakOnError(f) ==
    /\ task[f].pc = "queued"
    /\ LET fh == read_fileheader(files[f])
           total == TotalTraces(files[f])
       IN  task' = [task EXCEPT ![f] =
                IF fh = StructError
                THEN [@ EXCEPT !.pc = "failed", !.result = StructError]
                ELSE [pc |-> "scan", fh |-> fh, ns |-> fh.bfh.ns,
                      pos |-> FileHeaderBytes, remaining |-> total,
                      n |-> ChunkSize(total), pending |-> 0..(ChunkSize(total) - 1),
                      scan |-> NewScan, yielded |-> <<>>, result |-> None]]
    /\ handles' = handles \cup {Handle(<<"scan", f>>, files[f].path)}
    /\ UNCHANGED <<files, cfg, scans, outcome, call>>

\* with open(path, "rb") as f: the handle is open while the body runs and is
\* closed when the body returns or raises.  Open the file, read its header,
\* compute total and start on the first chunk; an exception of
\* read_fileheader leaves the with block and ends the coroutine
OpenScan(f) ==
    /\ task[f].pc = "queued"
    /\ LET fh == read_fileheader(files[f])
           total == TotalTraces(files[f])
       IN  task' = [task EXCEPT ![f] =
                IF fh = StructError
                THEN [@ EXCEPT !.pc = "failed", !.result = StructError]
                ELSE [pc |-> "scan", fh |-> fh, ns |-> fh.bfh.ns,
                      pos |-> FileHeaderBytes, remaining |-> total,
                      n |-> ChunkSize(total), pending |-> 0..(ChunkSize(total) - 1),
                      scan |-> NewScan, yielded |-> <<>>, result |-> None]]
    /\ handles' = IF HeaderReadable(files[f])
                  THEN handles \cup {Handle(<<"scan", f>>, files[f].path)}
                  ELSE handles
    /\ UNCHANGED <<files, cfg, scans, outcome, call>>

\* as_completed hands over the parse task i that completed next; the loop body
\* of _scan_file_async consumes it; after the last task of a chunk the
\* iterator moves to the next chunk
HeaderDone(f, i) ==
    /\ task[f].pc = "scan"
    /\ i \in Holders(task[f].pending, cfg.workers)
    /\ LET t == task[f]
           offset == t.pos + i * trace_size(t.ns)
           hdr == _parse_header(SliceAt(files[f], t.ns, t.pos, i), trace_keys(cfg.keys))
           s2 == ConsumeHeader(t.scan, files[f].path, t.fh, offset, hdr, cfg.keys)
           last == t.pending = {i}
           rem2 == IF last THEN t.remaining - t.n ELSE t.remaining
       IN  task' = [task EXCEPT ![f] =
                [t EXCEPT !.scan = s2,
                          !.yielded = Append(@, offset),
                          !.pos = IF last THEN @ + t.n * trace_size(t.ns) ELSE @,
                          !.remaining = rem2,
                          !.n = IF last THEN ChunkSize(rem2) ELSE @,
                          !.pending = IF last THEN 0..(ChunkSize(rem2) - 1)
                                      ELSE @ \ {i}]]
    /\ UNCHANGED <<files, cfg, scans, outcome, handles, call>>

\* the iterator is exhausted: final segment, sort, return SegyScan(fh, ...)
CloseFile(f) ==
    /\ task[f].pc = "scan"
    /\ task[f].remaining = 0
    /\ task' = [task EXCEPT ![f].pc = "finished",
                            ![f].result = SegyScan(task[f].fh, CloseScan(task[f].scan))]
    /\ handles' = {h \in handles : h.owner # <<"scan", f>>}
    /\ UNCHANGED <<files, cfg, scans, outcome, call>>

(***************************************************************************)
(* segy_scan.                                                              *)
(***************************************************************************)
\* what segy_scan raises when a file scan raised
Raised(result) == [status |-> result.error, scan |-> None]

\* path is a file: return asyncio.run(_scan_file_async(path, ...)), which
\* re-raises what the coroutine raised
ReturnScan ==
    /\ cfg.mode = "file"
    /\ outcome = Running
    /\ task[1].pc \in {"finished", "failed"}
    /\ outcome' = IF task[1].pc = "failed" THEN Raised(task[1].result)
                  ELSE [status |-> "ok", scan |-> task[1].result]
    /\ task' = [task EXCEPT ![1].pc = "collected"]
    /\ UNCHANGED <<files, cfg, scans, handles, call>>

\* path is a file: asyncio.run starts _scan_file_async(path, ...)
ScanPath ==
    /\ cfg.mode = "file"
    /\ OpenScan(1)

\* a pool thread takes the next submitted file scan off the work queue
PoolStart(f) ==
    /\ cfg.mode = "dir"
    /\ \A g \in Files : g < f => task[g].pc # "queued"
    /\ Cardinality({g \in Files : task[g].pc = "scan"}) < cfg.threads
    /\ OpenScan(f)

\* Collect that logs a failed file scan and goes on with the others
Collect_SkipFailed(f) ==
    /\ cfg.mode = "dir"
    /\ outcome = Running
    /\ task[f].pc \in {"finished", "failed"}
    /\ scans' = IF task[f].pc = "failed" THEN scans ELSE Append(scans, task[f].result)
    /\ task' = [task EXCEPT ![f].pc = "collected"]
    /\ UNCHANGED <<files, cfg, outcome, handles, call>>

\* for fut in as_completed(futures): scans.append(fut.result()); fut.result()
\* re-raises the exception of a failed file scan, which leaves the loop
Collect(f) ==
    /\ cfg.mode = "dir"
    /\ outcome = Running
    /\ \A g \in Files : task[g].pc # "raised"
    /\ task[f].pc \in {"finished", "failed"}
    /\ scans' = IF task[f].pc = "failed" THEN scans ELSE Append(scans, task[f].result)
    /\ task' = [task EXCEPT ![f].pc = IF task[f].pc = "failed" THEN "raised"
                                      ELSE "collected"]
    /\ UNCHANGED <<files, cfg, outcome, handles, call>>

\* PoolExit that does not wait for the scans still queued or running
PoolExit_NoWait ==
    /\ cfg.mode = "dir"
    /\ outcome = Running
    /\ \E f \in Files :
          /\ task[f].pc = "raised"
          /\ outcome' = Raised(task[f].result)
    /\ UNCHANGED <<files, cfg, task, scans, handles, call>>

\* the exception leaves the with block of the pool: shutdown(wait=True) lets
\* every submitted scan run to its end, then segy_scan raises
PoolExit ==
    /\ cfg.mode = "dir"
    /\ outcome = Running
    /\ \A g \in Files : task[g].pc \notin {"queued", "scan"}
    /\ \E f \in Files :
          /\ task[f].pc = "raised"
          /\ outcome' = Raised(task[f].result)
    /\ UNCHANGED <<files, cfg, task, scans, handles, call>>

\* ExtendAll with `records = sc.records` in place of records.extend
ExtendAll_KeepLast(ss) ==
    IF ss = <<>> THEN <<>> ELSE ss[Len(ss)].records

RECURSIVE ExtendAll(_)
ExtendAll(ss) ==
    IF ss = <<>> THEN <<>> ELSE ss[1].records \o ExtendAll(Tail(ss))

\* MergeScans comparing only the binary headers
MergeScans_BfhOnly(ss) ==
    IF ss = <<>> THEN [status |-> "FileNotFoundError", scan |-> None]
    ELSE IF \E i \in 1..Len(ss) : ss[i].fileheader.bfh # ss[1].fileheader.bfh
    THEN [status |-> "ValueError", scan |-> None]
    ELSE [status |-> "ok", scan |-> SegyScan(ss[1].fileheader, SortByShot(ExtendAll(ss)))]

\* MergeScans without the `if not scans` check: an empty catalog
MergeScans_NoEmptyCheck(ss) ==
    IF ss = <<>> THEN [status |-> "ok", scan |-> SegyScan(None, <<>>)]
    ELSE IF \E i \in 1..Len(ss) : ss[i].fileheader # ss[1].fileheader
    THEN [status |-> "ValueError", scan |-> None]
    ELSE [status |-> "ok", scan |-> SegyScan(ss[1].fileheader, SortByShot(ExtendAll(ss)))]

\* the code of segy_scan after the pool: the empty check, the header check
\* against scans[0] and the sorted concatenation
MergeScans(ss) ==
    IF ss = <<>> THEN [status |-> "FileNotFoundError", scan |-> None]
    ELSE IF \E i \in 1..Len(ss) : ss[i].fileheader # ss[1].fileheader
    THEN [status |-> "ValueError", scan |-> None]
    ELSE [status |-> "ok", scan |-> SegyScan(ss[1].fileheader, SortByShot(ExtendAll(ss)))]

Merge ==
    /\ cfg.mode = "dir"
    /\ outcome = Running
    /\ \A f \in Files : task[f].pc = "collected"
    /\ outcome' = MergeScans(scans)
    /\ UNCHANGED <<files, cfg, task, scans, handles, call>>

NextFile ==
    \/ ScanPath
    \/ cfg.mode = "file" /\ \E i \in 0..(MaxChunk - 1) : HeaderDone(1, i)
    \/ cfg.mode = "file" /\ CloseFile(1)
    \/ ReturnScan

NextDir ==
    \/ \E f \in Files : PoolStart(f)
    \/ cfg.mode = "dir" /\ \E f \in Files : \E i \in 0..(MaxChunk - 1) : HeaderDone(f, i)
    \/ cfg.mode = "dir" /\ \E f \in Files : CloseFile(f)
    \/ \E f \in Files : Collect(f)
    \/ PoolExit
    \/ Merge

Next == NextFile \/ NextDir

\* single-path scans
Spec == InitFile /\ [][NextFile]_vars

\* directory scans
SpecDir == InitDir /\ [][NextDir]_vars

\* both ways of calling segy_scan
SpecAll == (InitFile \/ InitDir) /\ [][Next]_vars

(***************************************************************************)
(* SegyScan.read_shot and SegyScan.read_headers on the catalog that the    *)
(* scan of a single path returned.  `call` is the frame of the method:     *)
(* the record, the next segment, the headers and data parts gathered so    *)
(* far and, once it has ended, what it returned or raised.  A sample is    *)
(* named by the trace and row it comes from.                               *)
(***************************************************************************)
\* the trace-header fields that the files of the scans hold
TraceFields == {"SourceX", "SourceY", "SourceDepth", "GroupX"}

\* the bytes of a header that follows the last whole trace
ZeroHeader == TraceBuffer(Word(0), Word(0), Word(0), Word(0))

\* f.read(240) at trace k (from 0) returns 240 bytes: the header of a whole
\* trace or the trailing header; past them it returns fewer
HasHeader(file, k) ==
    \/ k < Len(file.traces)
    \/ k = Len(file.traces) /\ file.tail >= TraceHeaderBytes

HeaderAt(file, k) ==
    IF k < Len(file.traces) THEN file.traces[k + 1] ELSE ZeroHeader

\* sample j of trace k as read_traces decodes it: a sample of the file, or
\* ibm_to_ieee of an empty slice past the end of the file, which is 0.0
SampleOf(file, k, j) ==
    IF k < Len(file.traces) THEN [trace |-> k, row |-> j] ELSE [trace |-> -1, row |-> j]

\* index of the trace at a byte offset
TraceIndex(offset, ns) == (offset - FileHeaderBytes) \div trace_size(ns)

\* f.seek(offset); read_traces(f, ns, count, datatype, None): the headers
\* and the ns x count data of the traces from offset on; unpack raises on a
\* header that is short and, for a format other than 1, on samples that
\* are short
SegmentTraces(file, ns, offset, count, datatype) ==
    LET at(i) == TraceIndex(offset, ns) + i - 1
    IN  IF \E i \in 1..count :
              \/ ~HasHeader(file, at(i))
              \/ at(i) >= Len(file.traces) /\ datatype # 1
        THEN StructError
        ELSE [headers |-> [i \in 1..count |->
                             _parse_header(HeaderAt(file, at(i)), TraceFields)],
              data |-> [j \in 1..ns |-> [i \in 1..count |-> SampleOf(file, at(i), j)]]]

\* f.seek(offset), then count times read_traceheader(f, None) and
\* f.seek(ns * 4, SEEK_CUR): the samples are never read
SegmentHeaders(file, ns, offset, count) ==
    LET at(i) == TraceIndex(offset, ns) + i - 1
    IN  IF \E i \in 1..count : ~HasHeader(file, at(i))
        THEN StructError
        ELSE [headers |-> [i \in 1..count |->
                             _parse_header(HeaderAt(file, at(i)), TraceFields)],
              data |-> <<>>]

\* np.concatenate(data_parts, axis=0): the rows of the parts one after the
\* other; parts of different widths raise ValueError
RECURSIVE StackRows(_)
StackRows(parts) ==
    IF parts = <<>> THEN <<>> ELSE Head(parts) \o StackRows(Tail(parts))

concatenate(data_parts) ==
    IF \E p \in 1..Len(data_parts) : Len(data_parts[p][1]) # Len(data_parts[1][1])
    THEN [ok |-> FALSE, rows |-> <<>>]
    ELSE [ok |-> TRUE, rows |-> StackRows(data_parts)]

\* the DataSampleFormat of the file header, which no scan looks at
SampleFormats == {1, 5}

ReadFrame(op, idx, datatype) ==
    [op |-> op, idx |-> idx, datatype |-> datatype, seg |-> 1, headers |-> <<>>,
     data_parts |-> <<>>, status |-> "running", result |-> None]

\* the catalog that segy_scan returned
ScanResult == outcome.scan

\* rec = self.records[idx] of the running call
Rec == ScanResult.records[call.idx]

\* scan.read_shot(idx) or scan.read_headers(idx) is called
StartRead(op, idx, datatype) ==
    /\ cfg.mode = "file"
    /\ outcome.status = "ok"
    /\ call = None
    /\ idx \in 1..Len(ScanResult.records)
    /\ op = "read_headers" => datatype = 5
    /\ call' = ReadFrame(op, idx, datatype)
    /\ UNCHANGED <<files, cfg, task, scans, outcome, handles>>

ReadRunning == cfg.mode = "file" /\ call # None /\ call.status = "running"

\* with open(rec.path, "rb") as f, for the next segment of the record
OpenSegment ==
    /\ ReadRunning
    /\ call.seg <= Len(Rec.segments)
    /\ \A h \in handles : h.owner # <<call.op, call.idx>>
    /\ handles' = handles \cup {Handle(<<call.op, call.idx>>, Rec.path)}
    /\ UNCHANGED <<files, cfg, task, scans, outcome, call>>

\* the body of the with block for one segment and its exit: the headers and
\* the data part are added, or the exception leaves the method
ReadSegment ==
    /\ ReadRunning
    /\ Handle(<<call.op, call.idx>>, Rec.path) \in handles
    /\ LET seg == Rec.segments[call.seg]
           ns == ScanResult.fileheader.bfh.ns
           r == IF call.op = "read_shot"
                THEN SegmentTraces(files[Rec.path], ns, seg[1], seg[2], call.datatype)
                ELSE SegmentHeaders(files[Rec.path], ns, seg[1], seg[2])
       IN  call' = IF r = StructError
                   THEN [call EXCEPT !.status = r.error]
                   ELSE [call EXCEPT !.headers = @ \o r.headers,
                                     !.data_parts = Append(@, r.data),
                                     !.seg = @ + 1]
    /\ handles' = handles \ {Handle(<<call.op, call.idx>>, Rec.path)}
    /\ UNCHANGED <<files, cfg, task, scans, outcome>>

\* after the loop: read_headers returns the headers, read_shot concatenates
\* the data parts and returns the block
FinishRead ==
    /\ ReadRunning
    /\ call.seg > Len(Rec.segments)
    /\ handles = {}
    /\ LET data == concatenate(call.data_parts)
       IN  call' = IF call.op = "read_headers"
                   THEN [call EXCEPT !.status = "ok", !.result = call.headers]
                   ELSE IF ~data.ok
                   THEN [call EXCEPT !.status = "ValueError"]
                   ELSE [call EXCEPT !.status = "ok",
                                     !.result = SeisBlock(ScanResult.fileheader,
                                                          call.headers, data.rows)]
    /\ UNCHANGED <<files, cfg, task, scans, outcome, handles>>

NextShot ==
    \/ \E op \in {"read_shot", "read_headers"}, idx \in 1..MaxTraces,
          datatype \in SampleFormats : StartRead(op, idx, datatype)
    \/ OpenSegment
    \/ ReadSegment
    \/ FinishRead

\* single-path scans followed by one read of a shot of the catalog
SpecShot == InitFile /\ [][NextFile \/ NextShot]_vars

(***************************************************************************)
(* What a file holds, read off its bytes independently of any scan.        *)
(***************************************************************************)
\* number of whole traces
NTraces(file) == Len(file.traces)

\* decoded value of a trace-header field of trace k (from 1)
FieldAt(file, k, name) == Int32(file.traces[k][name])

\* key (SourceX, SourceY, SourceDepth) of trace k
KeyAt(file, k) ==
    <<FieldAt(file, k, "SourceX"), FieldAt(file, k, "SourceY"),
      FieldAt(file, k, "SourceDepth")>>

KeysOf(file) == {KeyAt(file, k) : k \in 1..NTraces(file)}

TracesOf(file, shot) == {k \in 1..NTraces(file) : KeyAt(file, k) = shot}

\* byte offset of trace k
TraceOffset(file, k) ==
    FileHeaderBytes + (k - 1) * (TraceHeaderBytes + SampleBytes * Int16(file.hdr.ns))

\* first traces of the maximal runs of a key
RunStarts(file, shot) ==
    {k \in TracesOf(file, shot) : k = 1 \/ KeyAt(file, k - 1) # shot}

\* length of the maximal run that starts at k
RunLength(file, k) ==
    Cardinality({m \in k..NTraces(file) :
                    \A j \in k..m : KeyAt(file, j) = KeyAt(file, k)})

RECURSIVE Ascending(_)
Ascending(S) ==
    IF S = {} THEN <<>>
    ELSE LET m == CHOOSE x \in S : \A y \in S : x <= y
         IN  <<m>> \o Ascending(S \ {m})

\* the maximal runs of a key as (offset, count), in ascending offset
RunsOf(file, shot) ==
    LET starts == Ascending(RunStarts(file, shot))
    IN  [j \in 1..Len(starts) |->
            <<TraceOffset(file, starts[j]), RunLength(file, starts[j])>>]

\* true minimum and maximum of a field over the traces of a key
FieldMin(file, shot, name) ==
    CHOOSE v \in {FieldAt(file, k, name) : k \in TracesOf(file, shot)} :
        \A k \in TracesOf(file, shot) : v <= FieldAt(file, k, name)

FieldMax(file, shot, name) ==
    CHOOSE v \in {FieldAt(file, k, name) : k \in TracesOf(file, shot)} :
        \A k \in TracesOf(file, shot) : v >= FieldAt(file, k, name)

RECURSIVE SumCounts(_)
SumCounts(segs) ==
    IF segs = <<>> THEN 0 ELSE segs[1][2] + SumCounts(Tail(segs))

RECURSIVE SumRecordCounts(_)
SumRecordCounts(recs) ==
    IF recs = <<>> THEN 0
    ELSE SumCounts(recs[1].segments) + SumRecordCounts(Tail(recs))

\* segy_scan returned a catalog
Returned == outcome.status = "ok"

Catalog == outcome.scan.records

(***************************************************************************)
(* C1: in the catalog of a single-path scan, the segments of each record   *)
(* are exactly the maximal runs of file-consecutive traces of its shot, as *)
(* (offset of the first trace, length), each once, in ascending offset.    *)
(***************************************************************************)
C1_SegmentsAreMaximalRuns ==
    Returned =>
        \A i \in 1..Len(Catalog) :
            Catalog[i].segments = RunsOf(files[1], Catalog[i].shot)

(***************************************************************************)
(* C2: the offsets that _iter_trace_headers_async hands to the             *)
(* segmentation loop are strictly ascending, within and across chunks.     *)
(***************************************************************************)
C2_HandOverAscending ==
    \A f \in Files :
        \A j \in 1..(Len(task[f].yielded) - 1) :
            task[f].yielded[j] < task[f].yielded[j + 1]

(***************************************************************************)
(* C3: the concurrent scan returns the catalog of the sequential scan      *)
(* _scan_file of the same file, keys and chunk.                            *)
(***************************************************************************)
C3_AsyncEqualsSequential ==
    Returned => outcome.scan = _scan_file(files[1], cfg.keys, cfg.chunk)

(***************************************************************************)
(* C4: a single-path scan returns exactly one record per distinct key of   *)
(* the file; the segment counts of a record add up to the number of traces *)
(* of its key; all counts add up to (filesize - 3600) div (240 + 4*ns).    *)
(***************************************************************************)
C4_OneRecordPerKeyCountsAddUp ==
    Returned =>
        /\ {Catalog[i].shot : i \in 1..Len(Catalog)} = KeysOf(files[1])
        /\ Len(Catalog) = Cardinality(KeysOf(files[1]))
        /\ \A i \in 1..Len(Catalog) :
              SumCounts(Catalog[i].segments)
                  = Cardinality(TracesOf(files[1], Catalog[i].shot))
        /\ SumRecordCounts(Catalog)
              = (FileSize(files[1]) - 3600) \div (240 + 4 * Int16(files[1].hdr.ns))

\* a returned catalog with a shot split into two segments around another shot
C4_Witness ==
    /\ Returned
    /\ cfg.mode = "file"
    /\ Len(Catalog) >= 2
    /\ \E i \in 1..Len(Catalog) : Len(Catalog[i].segments) >= 2

(***************************************************************************)
(* C5: for every record and every requested extra field, the recorded      *)
(* (min, max) is the true minimum and maximum of the field over all traces *)
(* of the record's shot.                                                   *)
(***************************************************************************)
C5_SummaryIsTrueMinMax ==
    Returned =>
        \A i \in 1..Len(Catalog) :
            /\ DOMAIN Catalog[i].summary = cfg.keys
            /\ \A k \in cfg.keys :
                  Catalog[i].summary[k]
                      = <<FieldMin(files[1], Catalog[i].shot, k),
                          FieldMax(files[1], Catalog[i].shot, k)>>

\* a record in two segments whose GroupX minimum and maximum differ
C5_Witness ==
    /\ Returned
    /\ cfg.mode = "file"
    /\ "GroupX" \in cfg.keys
    /\ \E i \in 1..Len(Catalog) :
          /\ Len(Catalog[i].segments) >= 2
          /\ Catalog[i].summary["GroupX"][1] < Catalog[i].summary["GroupX"][2]

(***************************************************************************)
(* C6: the records of every returned catalog, single-path or merged, are   *)
(* in non-decreasing lexicographic order of the shot 3-tuple.              *)
(***************************************************************************)
C6_RecordsSortedByShot ==
    Returned =>
        \A i, j \in 1..Len(Catalog) :
            i < j => ShotLeq(Catalog[i].shot, Catalog[j].shot)

\* a merged catalog whose concatenation, in collection order, was not sorted
C6_Witness ==
    /\ Returned
    /\ cfg.mode = "dir"
    /\ \E i, j \in 1..Len(ExtendAll(scans)) :
          i < j /\ ShotLess(ExtendAll(scans)[j].shot, ExtendAll(scans)[i].shot)

(***************************************************************************)
(* C7: a merged catalog holds exactly one record per (file, key) pair,     *)
(* carrying that file's path and that file's own segments and summary;     *)
(* records of different files with the same key stay separate, and the     *)
(* record count is the sum of the per-file record counts.                  *)
(***************************************************************************)
RECURSIVE SumRecordLens(_)
SumRecordLens(ss) ==
    IF ss = <<>> THEN 0 ELSE Len(ss[1].records) + SumRecordLens(Tail(ss))

C7_OneRecordPerFileAndKey ==
    Returned =>
        /\ \A f \in Files : \A shot \in KeysOf(files[f]) :
              Cardinality({i \in 1..Len(Catalog) :
                              Catalog[i].path = files[f].path
                              /\ Catalog[i].shot = shot}) = 1
        /\ Len(Catalog) = SumRecordLens([f \in Files |-> task[f].result])
        /\ \A i \in 1..Len(Catalog) :
              \E f \in Files :
                 /\ Catalog[i].path = files[f].path
                 /\ Catalog[i].shot \in KeysOf(files[f])
                 /\ \E j \in 1..Len(task[f].result.records) :
                       Catalog[i] = task[f].result.records[j]
                 /\ SumCounts(Catalog[i].segments)
                       = Cardinality(TracesOf(files[f], Catalog[i].shot))
                 /\ Catalog[i].summary["GroupX"]
                       = <<FieldMin(files[f], Catalog[i].shot, "GroupX"),
                           FieldMax(files[f], Catalog[i].shot, "GroupX")>>

\* a merged catalog with two records of the same shot from different files
C7_Witness ==
    /\ Returned
    /\ cfg.mode = "dir"
    /\ \E i, j \in 1..Len(Catalog) :
          Catalog[i].shot = Catalog[j].shot /\ Catalog[i].path # Catalog[j].path

(***************************************************************************)
(* C8: the outcome of a directory scan does not depend on the order in     *)
(* which the file scans complete, and is the outcome of scanning the files *)
(* one after another, sequentially, in sorted path order.                  *)
(***************************************************************************)
SerialOutcome ==
    MergeScans([f \in Files |-> _scan_file(files[f], cfg.keys, cfg.chunk)])

C8_SameAsSerialScan ==
    (cfg.mode = "dir" /\ Returned) => outcome = SerialOutcome

(***************************************************************************)
(* C9: a directory scan of at least one file raises the header-mismatch    *)
(* ValueError exactly when two files differ in a binary file-header field. *)
(***************************************************************************)
BinaryFieldsDiffer(f, g) ==
    \E k \in FH_FIELDS : Int16(files[f].hdr[k]) # Int16(files[g].hdr[k])

TextDiffers(f, g) == files[f].hdr.text # files[g].hdr.text

Merged ==
    /\ cfg.mode = "dir"
    /\ outcome # Running
    /\ files # <<>>
    /\ \A f \in Files : HeaderReadable(files[f])

C9_MismatchIffBinaryFieldsDiffer ==
    Merged =>
        (outcome.status = "ValueError"
            <=> \E f, g \in Files : BinaryFieldsDiffer(f, g))

(***************************************************************************)
(* C9 as amended: a directory scan of at least one file raises the         *)
(* header-mismatch ValueError exactly when two files differ in the textual *)
(* header or in a binary file-header field.                                *)
(***************************************************************************)
C9_MismatchIffHeadersDiffer ==
    Merged =>
        (outcome.status = "ValueError"
            <=> \E f, g \in Files : BinaryFieldsDiffer(f, g) \/ TextDiffers(f, g))

\* the mismatch error raised for two files of equal text and different ns
C9_Witness ==
    /\ Merged
    /\ outcome.status = "ValueError"
    /\ \E f, g \in Files : BinaryFieldsDiffer(f, g) /\ ~TextDiffers(f, g)

(***************************************************************************)
(* C10: a directory scan that matches no file raises FileNotFoundError and *)
(* returns no catalog.                                                     *)
(***************************************************************************)
C10_NoFilesRaises ==
    (cfg.mode = "dir" /\ files = <<>> /\ outcome # Running) =>
        (outcome.status = "FileNotFoundError" /\ outcome.scan = None)

\* the error raised for an empty listing
C10_Witness ==
    /\ cfg.mode = "dir"
    /\ files = <<>>
    /\ outcome.status = "FileNotFoundError"

(***************************************************************************)
(* Header codec on byte strings (src/pysegy/read.py, src/pysegy/write.py). *)
(* A byte string is a sequence of bytes 0..255.  Offsets are those of the   *)
(* source tables, counted from 0.                                          *)
(***************************************************************************)
\* length of the textual header
TextHeaderBytes == 3200

\* b" ", the byte that pads the textual header, and a letter of its text
Space == 32

Letter == 65

\* FH_BYTE2SAMPLE in dictionary order: field name and offset
FH_BYTE2SAMPLE ==
    << <<"Job", 3200>>, <<"Line", 3204>>, <<"Reel", 3208>>,
       <<"DataTracePerEnsemble", 3212>>,
       <<"AuxiliaryTracePerEnsemble", 3214>>, <<"dt", 3216>>,
       <<"dtOrig", 3218>>, <<"ns", 3220>>, <<"nsOrig", 3222>>,
       <<"DataSampleFormat", 3224>>, <<"EnsembleFold", 3226>>,
       <<"TraceSorting", 3228>>, <<"VerticalSumCode", 3230>>,
       <<"SweepFrequencyStart", 3232>>, <<"SweepFrequencyEnd", 3234>>,
       <<"SweepLength", 3236>>, <<"SweepType", 3238>>,
       <<"SweepChannel", 3240>>, <<"SweepTaperlengthStart", 3242>>,
       <<"SweepTaperLengthEnd", 3244>>, <<"TaperType", 3246>>,
       <<"CorrelatedDataTraces", 3248>>, <<"BinaryGain", 3250>>,
       <<"AmplitudeRecoveryMethod", 3252>>, <<"MeasurementSystem", 3254>>,
       <<"ImpulseSignalPolarity", 3256>>, <<"VibratoryPolarityCode", 3258>>,
       <<"SegyFormatRevisionNumber", 3500>>,
       <<"FixedLengthTraceFlag", 3502>>,
       <<"NumberOfExtTextualHeaders", 3504>> >>

\* TH_BYTE2SAMPLE in dictionary order: field name and offset
TH_BYTE2SAMPLE ==
    << <<"TraceNumWithinLine", 0>>, <<"TraceNumWithinFile", 4>>,
       <<"FieldRecord", 8>>, <<"TraceNumber", 12>>,
       <<"EnergySourcePoint", 16>>, <<"CDP", 20>>, <<"CDPTrace", 24>>,
       <<"TraceIDCode", 28>>, <<"NSummedTraces", 30>>,
       <<"NStackedTraces", 32>>, <<"DataUse", 34>>, <<"Offset", 36>>,
       <<"RecGroupElevation", 40>>, <<"SourceSurfaceElevation", 44>>,
       <<"SourceDepth", 48>>, <<"RecDatumElevation", 52>>,
       <<"SourceDatumElevation", 56>>, <<"SourceWaterDepth", 60>>,
       <<"GroupWaterDepth", 64>>, <<"ElevationScalar", 68>>,
       <<"RecSourceScalar", 70>>, <<"SourceX", 72>>, <<"SourceY", 76>>,
       <<"GroupX", 80>>, <<"GroupY", 84>>, <<"CoordUnits", 88>>,
       <<"WeatheringVelocity", 90>>, <<"SubWeatheringVelocity", 92>>,
       <<"UpholeTimeSource", 94>>, <<"UpholeTimeGroup", 96>>,
       <<"StaticCorrectionSource", 98>>, <<"StaticCorrectionGroup", 100>>,
       <<"TotalStaticApplied", 102>>, <<"LagTimeA", 104>>,
       <<"LagTimeB", 106>>, <<"DelayRecordingTime", 108>>,
       <<"MuteTimeStart", 110>>, <<"MuteTimeEnd", 112>>, <<"ns", 114>>,
       <<"dt", 116>>, <<"GainType", 118>>, <<"InstrumentGainConstant", 120>>,
       <<"InstrumntInitialGain", 122>>, <<"Correlated", 124>>,
       <<"SweepFrequencyStart", 126>>, <<"SweepFrequencyEnd", 128>>,
       <<"SweepLength", 130>>, <<"SweepType", 132>>,
       <<"SweepTraceTaperLengthStart", 134>>,
       <<"SweepTraceTaperLengthEnd", 136>>, <<"TaperType", 138>>,
       <<"AliasFilterFrequency", 140>>, <<"AliasFilterSlope", 142>>,
       <<"NotchFilterFrequency", 144>>, <<"NotchFilterSlope", 146>>,
       <<"LowCutFrequency", 148>>, <<"HighCutFrequency", 150>>,
       <<"LowCutSlope", 152>>, <<"HighCutSlope", 154>>, <<"Year", 156>>,
       <<"DayOfYear", 158>>, <<"HourOfDay", 160>>, <<"MinuteOfHour", 162>>,
       <<"SecondOfMinute", 164>>, <<"TimeCode", 166>>,
       <<"TraceWeightingFactor", 168>>, <<"GeophoneGroupNumberRoll", 170>>,
       <<"GeophoneGroupNumberTraceStart", 172>>,
       <<"GeophoneGroupNumberTraceEnd", 174>>, <<"GapSize", 176>>,
       <<"OverTravel", 178>>, <<"CDPX", 180>>, <<"CDPY", 184>>,
       <<"Inline3D", 188>>, <<"Crossline3D", 192>>, <<"ShotPoint", 196>>,
       <<"ShotPointScalar", 200>>, <<"TraceValueMeasurmentUnit", 202>>,
       <<"TransductionConstnatMantissa", 204>>,
       <<"TransductionConstantPower", 208>>, <<"TransductionUnit", 210>>,
       <<"TraceIdentifier", 212>>, <<"ScalarTraceHeader", 214>>,
       <<"SourceType", 216>>, <<"SourceEnergyDirectionMantissa", 218>>,
       <<"SourceEnergyDirectionExponent", 222>>,
       <<"SourceMeasurmentMantissa", 224>>,
       <<"SourceMeasurementExponent", 228>>, <<"SourceMeasurmentUnit", 230>>,
       <<"Unassigned1", 232>>, <<"Unassigned2", 236>> >>

KeysOfTable(table) == {table[i][1] : i \in 1..Len(table)}

OffsetIn(table, k) == table[CHOOSE i \in 1..Len(table) : table[i][1] = k][2]

FH_KEYS == KeysOfTable(FH_BYTE2SAMPLE)

TH_KEYS == KeysOfTable(TH_BYTE2SAMPLE)

\* the file-header fields stored on 4 bytes
FH_INT32_FIELDS == {"Job", "Line", "Reel"}

\* size = 4 if key in ("Job", "Line", "Reel") else 2
FHSize(k) == IF k \in FH_INT32_FIELDS THEN 4 ELSE 2

\* the widths exchanged: 2 bytes for the 4-byte fields, 4 for the others
THSize_Swapped(k) == IF k \in TH_INT32_FIELDS THEN 2 ELSE 4

\* size = 4 if k in TH_INT32_FIELDS else 2
THSize(k) == IF k \in TH_INT32_FIELDS THEN 4 ELSE 2

\* buf[lo:hi] of Python: clipped to the bytes that exist
Slice(buf, lo, hi) ==
    IF lo >= Len(buf) THEN <<>> ELSE SubSeq(buf, lo + 1, Min(hi, Len(buf)))

Repeat(c, n) == [i \in 1..n |-> c]

\* a byte order that ignores the order selected
Ordered_BigOnly(bytes, bigendian) == bytes

\* the bytes of a number in the order of the format character: ">" keeps
\* the most significant byte first, "<" puts it last
Ordered(bytes, bigendian) ==
    IF bigendian THEN bytes
    ELSE [i \in 1..Len(bytes) |-> bytes[Len(bytes) + 1 - i]]

\* struct.pack(fmt, v) for ">h", ">i", "<h" and "<i": ok is FALSE where
\* struct raises struct.error (a value of the model always fits 32 bits)
Pack(v, size, bigendian) ==
    IF size = 2
    THEN IF v < -32768 \/ v > 32767
         THEN [ok |-> FALSE, bytes |-> <<>>]
         ELSE [ok |-> TRUE,
               bytes |-> Ordered(<<(v \div 256) % 256, v % 256>>, bigendian)]
    ELSE [ok |-> TRUE,
          bytes |-> Ordered(<<(v \div 16777216) % 256, (v \div 65536) % 256,
                              (v \div 256) % 256, v % 256>>, bigendian)]

\* struct.unpack(fmt, bytes) of a buffer of exactly the size of fmt
Unpack(bytes, bigendian) ==
    IF Len(bytes) = 4 THEN Int32(Ordered(bytes, bigendian))
    ELSE Int16(Ordered(bytes, bigendian))

\* BinaryFileHeader() and BinaryTraceHeader(): every field 0
BinaryFileHeader == [k \in FH_KEYS |-> 0]

BinaryTraceHeader == [k \in TH_KEYS |-> 0]

FileHeader(th, bfh) == [th |-> th, bfh |-> bfh]

\* the loop of write_fileheader from field i of the table on: each field is
\* packed and written at the current end of the stream; a value that does
\* not fit its width raises and leaves what was written so far
RECURSIVE WriteFields(_, _, _, _)
WriteFields(out, bfh, i, bigendian) ==
    IF i > Len(FH_BYTE2SAMPLE) THEN [bytes |-> out, error |-> "none"]
    ELSE LET key == FH_BYTE2SAMPLE[i][1]
             p == Pack(bfh[key], FHSize(key), bigendian)
         IN  IF ~p.ok THEN [bytes |-> out, error |-> "struct.error"]
             ELSE WriteFields(out \o p.bytes, bfh, i + 1, bigendian)

\* write_fileheader without the final padding
write_fileheader_NoPad(fh, bigendian) ==
    LET th == IF Len(fh.th) < TextHeaderBytes
              THEN fh.th \o Repeat(Space, TextHeaderBytes - Len(fh.th))
              ELSE fh.th
    IN  WriteFields(SubSeq(th, 1, TextHeaderBytes), fh.bfh, 1, bigendian)

\* write_fileheader(f, fh) on an empty stream: the bytes written and the
\* error raised, if any
write_fileheader(fh, bigendian) ==
    LET th == IF Len(fh.th) < TextHeaderBytes
              THEN fh.th \o Repeat(Space, TextHeaderBytes - Len(fh.th))
              ELSE fh.th
        w == WriteFields(SubSeq(th, 1, TextHeaderBytes), fh.bfh, 1, bigendian)
        pad == FileHeaderBytes - Len(w.bytes)
    IN  IF w.error # "none" \/ pad <= 0 THEN w
        ELSE [w EXCEPT !.bytes = @ \o Repeat(0, pad)]


\* the loop of write_traceheader over TH_BYTE2SAMPLE: every field is packed
\* into the buffer at its offset, a later field of the table overwriting an
\* earlier one; the first pack that raises ends the call
PackFields(buf, th, bigendian) ==
    LET N == Len(TH_BYTE2SAMPLE)
        key(j) == TH_BYTE2SAMPLE[j][1]
        off(j) == TH_BYTE2SAMPLE[j][2]
        packed == [j \in 1..N |-> Pack(th[key(j)], THSize(key(j)), bigendian)]
        covers(j, i) == i > off(j) /\ i <= off(j) + THSize(key(j))
        last(i) == CHOOSE j \in 1..N :
                      /\ covers(j, i)
                      /\ \A j2 \in (j + 1)..N : ~covers(j2, i)
    IN  IF \E j \in 1..N : ~packed[j].ok
        THEN [bytes |-> <<>>, error |-> "struct.error"]
        ELSE [bytes |-> [i \in 1..Len(buf) |->
                            IF \E j \in 1..N : covers(j, i)
                            THEN packed[last(i)].bytes[i - off(last(i))]
                            ELSE buf[i]],
              error |-> "none"]

\* write_traceheader(f, th): a zeroed 240-byte buffer with every field packed
\* at its offset; nothing is written when a pack raises
write_traceheader(th, bigendian) ==
    PackFields(Repeat(0, TraceHeaderBytes), th, bigendian)

\* the decode loop shared by the header readers: every requested field is
\* unpacked from buf[offset:offset+size], which raises when the slice is
\* short; the other fields keep the default 0
DecodeFields(buf, table, int32, keys, bigendian) ==
    LET size(k) == IF k \in int32 THEN 4 ELSE 2
        field(k) == Slice(buf, OffsetIn(table, k), OffsetIn(table, k) + size(k))
    IN  IF \E k \in keys : Len(field(k)) # size(k)
        THEN StructError
        ELSE [k \in KeysOfTable(table) |->
                IF k \in keys THEN Unpack(field(k), bigendian) ELSE 0]

\* read_fileheader(f, keys) on the bytes of f
read_fileheader_keys(bytes, keys, bigendian) ==
    LET text_header == Slice(bytes, 0, FileHeaderBytes)
        bfh == DecodeFields(text_header, FH_BYTE2SAMPLE, FH_INT32_FIELDS, keys, bigendian)
    IN  IF bfh = StructError THEN StructError
        ELSE FileHeader(Slice(text_header, 0, TextHeaderBytes), bfh)

\* a decode that reads every field of the table whatever keys says
read_traceheader_AllFields(bytes, keys, bigendian) ==
    DecodeFields(Slice(bytes, 0, TraceHeaderBytes), TH_BYTE2SAMPLE, TH_INT32_FIELDS,
                 TH_KEYS, bigendian)

\* read_traceheader(f, keys) on the bytes f holds from its position on
read_traceheader(bytes, keys, bigendian) ==
    DecodeFields(Slice(bytes, 0, TraceHeaderBytes), TH_BYTE2SAMPLE, TH_INT32_FIELDS,
                 keys, bigendian)

\* _parse_header(buf, keys) of scan.py on raw bytes: unpack_from raises when
\* the buffer ends before offset + size; the formats are ">i" and ">h"
_parse_header_bytes(buf, keys) ==
    DecodeFields(buf, TH_BYTE2SAMPLE, TH_INT32_FIELDS, keys, TRUE)

(***************************************************************************)
(* Samples.  A Python float is modelled by its exact value s * m * 2^e     *)
(* with m odd (or m = 0 and e = 0): a double whose significand fits 31     *)
(* bits.  Conversions are computed on the bits they produce.               *)
(***************************************************************************)
RECURSIVE Pow2(_)
Pow2(n) == IF n = 0 THEN 1 ELSE 2 * Pow2(n - 1)

\* number of bits of m > 0
RECURSIVE BitLen(_)
BitLen(m) == IF m = 0 THEN 0 ELSE 1 + BitLen(m \div 2)

RECURSIVE Normal(_, _, _)
Normal(s, m, e) ==
    IF m = 0 THEN [s |-> s, m |-> 0, e |-> 0]
    ELSE IF m % 2 = 0 THEN Normal(s, m \div 2, e + 1)
    ELSE [s |-> s, m |-> m, e |-> e]

\* == of two Python floats (0.0 == -0.0)
FloatEq(x, y) == (x.m = 0 /\ y.m = 0) \/ x = y

\* the C cast of a double to float: round to nearest, ties to even, of the
\* significand to 24 bits (values of the model are far from the subnormals)
Float32Round(x) ==
    LET len == BitLen(x.m)
        shift == len - 24
        q == x.m \div Pow2(shift)
        r == x.m % Pow2(shift)
        half == Pow2(shift - 1)
        up == r > half \/ (r = half /\ q % 2 = 1)
    IN  IF len <= 24 THEN x
        ELSE Normal(x.s, IF up THEN q + 1 ELSE q, x.e + shift)

\* struct.pack(">f", x): the four bytes of the IEEE single nearest to x;
\* OverflowError when it exceeds the range of a single
PackFloat(x) ==
    LET y == Float32Round(x)
        len == BitLen(y.m)
        biased == y.e + len - 1 + 127
        frac == y.m * Pow2(24 - len) - 8388608
        sbit == IF y.s < 0 THEN 128 ELSE 0
    IN  IF y.m = 0 THEN [ok |-> TRUE, bytes |-> <<sbit, 0, 0, 0>>]
        ELSE IF biased > 254 THEN [ok |-> FALSE, bytes |-> <<>>]
        ELSE [ok |-> TRUE,
              bytes |-> <<sbit + biased \div 2,
                          (biased % 2) * 128 + frac \div 65536,
                          (frac \div 256) % 256, frac % 256>>]

\* struct.unpack(">f", b) of a finite single
UnpackFloat(b) ==
    LET s == IF b[1] >= 128 THEN -1 ELSE 1
        biased == (b[1] % 128) * 2 + b[2] \div 128
        frac == (b[2] % 128) * 65536 + b[3] * 256 + b[4]
    IN  IF biased = 0 THEN Normal(s, frac, -149)
        ELSE Normal(s, 8388608 + frac, biased - 150)

\* ibm_to_ieee with the exponent field taken with its sign bit
ibm_to_ieee_WideExponent(value) ==
    LET sign == IF value[1] \div 128 = 0 THEN 1 ELSE -1
        exponent == value[1]
        fraction == value[2] * 65536 + value[3] * 256 + value[4]
    IN  IF value = <<0, 0, 0, 0>> THEN [s |-> 1, m |-> 0, e |-> 0]
        ELSE Normal(sign, fraction, 4 * (exponent - 64) - 24)

\* ibm_to_ieee(value) of a 4-byte word: val >> 31, (val >> 24) & 0x7f and
\* val & 0x00ffffff on the bytes; fraction / 2^24 and the power of 16 are
\* powers of two, so the product is exact in a double
ibm_to_ieee(value) ==
    LET sign == IF value[1] \div 128 = 0 THEN 1 ELSE -1
        exponent == value[1] % 128
        fraction == value[2] * 65536 + value[3] * 256 + value[4]
    IN  IF value = <<0, 0, 0, 0>> THEN [s |-> 1, m |-> 0, e |-> 0]
        ELSE Normal(sign, fraction, 4 * (exponent - 64) - 24)

\* the exponent ieee_to_ibm counts is not negative, so that val.to_bytes
\* does not raise OverflowError
IbmEncodable(f) == f.m = 0 \/ 64 + (f.e + BitLen(f.m) - 1) \div 4 >= 0

\* ieee_to_ibm(f): f is scaled by 16 into [1, 16), counting the exponent from
\* 64, and the low 24 bits of int(f * 2^24) are the fraction
ieee_to_ibm(f) ==
    LET top == f.e + BitLen(f.m) - 1
        k == top \div 4
        shift == f.e - 4 * k + 24
        scaled == IF shift >= 0 THEN f.m * Pow2(shift) ELSE f.m \div Pow2(-shift)
        fraction == scaled % 16777216
        sign == IF f.s < 0 THEN 128 ELSE 0
    IN  IF f.m = 0 THEN <<0, 0, 0, 0>>
        ELSE <<sign + 64 + k, fraction \div 65536, (fraction \div 256) % 256,
               fraction % 256>>

(***************************************************************************)
(* Whole files: write_block and read_file.  data[j][i] is sample j of      *)
(* trace i.                                                                *)
(***************************************************************************)
\* b"".join of the 4-byte words of the samples of one trace
RECURSIVE JoinWords(_)
JoinWords(words) ==
    IF words = <<>> THEN <<>> ELSE Head(words) \o JoinWords(Tail(words))

\* PackTrace that writes the samples of a trace last to first
PackTrace_Reversed(trace, dsf, bigendian) ==
    IF \E j \in 1..Len(trace) : ~PackFloat(trace[j]).ok
    THEN [ok |-> FALSE, bytes |-> <<>>]
    ELSE [ok |-> TRUE,
          bytes |-> JoinWords([j \in 1..Len(trace) |->
                      Ordered(PackFloat(trace[Len(trace) + 1 - j]).bytes, bigendian)])]

\* the samples of one trace as write_block writes them: ieee_to_ibm word by
\* word for format 1, struct.pack(">%df") or struct.pack("<%df") otherwise,
\* which raises before anything is written when a sample does not fit a
\* single
PackTrace(trace, dsf, bigendian) ==
    IF dsf = 1
    THEN IF \E j \in 1..Len(trace) : ~IbmEncodable(trace[j])
         THEN [ok |-> FALSE, bytes |-> <<>>]
         ELSE [ok |-> TRUE,
               bytes |-> JoinWords([j \in 1..Len(trace) |-> ieee_to_ibm(trace[j])])]
    ELSE IF \E j \in 1..Len(trace) : ~PackFloat(trace[j]).ok
    THEN [ok |-> FALSE, bytes |-> <<>>]
    ELSE [ok |-> TRUE,
          bytes |-> JoinWords([j \in 1..Len(trace) |->
                      Ordered(PackFloat(trace[j]).bytes, bigendian)])]

\* the loop of write_block from trace i on
RECURSIVE WriteTraces(_, _, _, _)
WriteTraces(out, block, i, bigendian) ==
    IF i > Len(block.traceheaders) THEN [bytes |-> out, error |-> "none"]
    ELSE LET ns == block.fileheader.bfh["ns"]
             rows == IF ns > 0 THEN 1..ns ELSE {}
         IN  IF \E j \in rows : j > Len(block.data) \/ i > Len(block.data[j])
             THEN [bytes |-> out, error |-> "IndexError"]
             ELSE LET trace == [j \in rows |-> block.data[j][i]]
                      h == write_traceheader(block.traceheaders[i], bigendian)
                      d == PackTrace(trace, block.fileheader.bfh["DataSampleFormat"],
                                     bigendian)
                  IN  IF h.error # "none" THEN [bytes |-> out, error |-> h.error]
                      ELSE IF ~d.ok
                      THEN [bytes |-> out \o h.bytes, error |-> "OverflowError"]
                      ELSE WriteTraces(out \o h.bytes \o d.bytes, block, i + 1,
                                       bigendian)

\* write_block(f, block) on an empty stream
write_block(block, bigendian) ==
    LET w == write_fileheader(block.fileheader, bigendian)
    IN  IF w.error # "none" THEN w ELSE WriteTraces(w.bytes, block, 1, bigendian)

\* parse_one(idx) of read_traces_async: the header with every key and the
\* samples of trace idx (from 0) of raw
parse_one(raw, ns, datatype, idx, bigendian) ==
    LET size == TraceHeaderBytes + ns * SampleBytes
        offset == idx * size
        hdr_buf == Slice(raw, offset, offset + TraceHeaderBytes)
        data_buf == Slice(raw, offset + TraceHeaderBytes, offset + size)
        word(j) == SubSeq(data_buf, SampleBytes * (j - 1) + 1, SampleBytes * j)
    IN  [hdr |-> DecodeFields(hdr_buf, TH_BYTE2SAMPLE, TH_INT32_FIELDS, TH_KEYS,
                              bigendian),
         samples |-> [j \in 1..ns |->
                        IF datatype = 1 THEN ibm_to_ieee(word(j))
                        ELSE UnpackFloat(Ordered(word(j), bigendian))]]

\* read_file(f) on the bytes of f (ns >= 0) when the traces are decoded in
\* index order: the header with every field, ntraces by floor division,
\* then trace after trace
read_file(bytes, bigendian) ==
    LET fh == read_fileheader_keys(bytes, FH_KEYS, bigendian)
    IN  IF fh = StructError THEN StructError
        ELSE LET ns == fh.bfh["ns"]
                 dsf == fh.bfh["DataSampleFormat"]
                 size == TraceHeaderBytes + ns * SampleBytes
                 ntraces == (Len(bytes) - FileHeaderBytes) \div size
                 raw == Slice(bytes, FileHeaderBytes, FileHeaderBytes + size * ntraces)
             IN  SeisBlock(fh,
                    [i \in 1..ntraces |-> parse_one(raw, ns, dsf, i - 1, bigendian).hdr],
                    [j \in 1..ns |->
                        [i \in 1..ntraces |-> parse_one(raw, ns, dsf, i - 1, bigendian).samples[j]]])

(***************************************************************************)
(* Codec calls.  cfg names what is written first (cfg.write, of cfg.obj)   *)
(* and what is read (cfg.read, with cfg.keys); files[1] holds the bytes of *)
(* the handle once it exists; outcome is what the call returned or raised. *)
(* cfg.bigendian is the byte order selected on the write and on the read   *)
(* (True is the default of every function).                                *)
(***************************************************************************)
Call(write, obj, read, keys, bigendian) ==
    [mode |-> "codec", write |-> write, obj |-> obj, read |-> read, keys |-> keys,
     bigendian |-> bigendian, path |-> FALSE]

\* segy_write(path, block) and segy_read(path): the call opens the file
\* itself and uses the default byte order
PathCall(write, obj, read, keys) ==
    [Call(write, obj, read, keys, TRUE) EXCEPT !.path = TRUE]

\* values assigned to header fields: in range of 2 bytes, and 40000, which
\* fits 4 bytes only
FieldValues == {0, 1, -1, 258, 32767, -32768, 40000, 2147483647, -2147483647 - 1}

\* the file-header fields the calls assign: a 4-byte field, ns, the last
\* field of the contiguous part of the table and the three fields at 3500
AssignedFHKeys ==
    {"Job", "ns", "VibratoryPolarityCode", "SegyFormatRevisionNumber",
     "FixedLengthTraceFlag", "NumberOfExtTextualHeaders"}

\* textual headers: empty, short, exact and one byte too long
Texts ==
    {Repeat(Letter, n) : n \in {0, 10, TextHeaderBytes, TextHeaderBytes + 1}}

FileHeaders ==
    {FileHeader(t, [BinaryFileHeader EXCEPT ![k] = v]) :
        t \in Texts, k \in AssignedFHKeys, v \in FieldValues}

\* the trace-header fields that the inputs assign: the first and the last
\* field of the table, the shot fields and two 2-byte fields
AssignedTHKeys ==
    {"TraceNumWithinLine", "SourceDepth", "ElevationScalar", "SourceX",
     "SourceY", "GroupX", "ns", "Unassigned2"}

TraceHeaders ==
    {[BinaryTraceHeader EXCEPT ![k] = v] : k \in AssignedTHKeys, v \in FieldValues}

\* samples: 0, 1, -0.5, 2^24 + 1 and 2^24 + 3 (no single has these values)
\* and 2^200 (beyond the range of a single)
Float(s, m, e) == Normal(s, m, e)

SampleValues ==
    {Float(1, 0, 0), Float(1, 1, 0), Float(-1, 1, -1), Float(1, 16777217, 0),
     Float(1, 16777219, 0), Float(1, 1, 200)}

\* a block of t traces of n samples, as test_write_roundtrip builds it:
\* sample j of trace i is i*j but for the last one, x; trace i has
\* SourceX = i * sx and ElevationScalar = es
Block(n, t, dsf, x, sx, es) ==
    SeisBlock(
        FileHeader(Repeat(Space, TextHeaderBytes),
                   [BinaryFileHeader EXCEPT !["ns"] = n, !["DataSampleFormat"] = dsf]),
        [i \in 1..t |-> [BinaryTraceHeader EXCEPT
                            !["ns"] = n, !["SourceX"] = i * sx,
                            !["ElevationScalar"] = es]],
        [j \in 1..n |-> [i \in 1..t |->
            IF j = n /\ i = t THEN x ELSE Float(1, i * j, 0)]])

Blocks ==
    {Block(n, t, dsf, x, sx, 0) :
        n \in 1..MaxSamples, t \in 0..MaxTraces, dsf \in {1, 5},
        x \in SampleValues, sx \in {1, -1}}
    \cup {Block(1, 1, 5, Float(1, 1, 0), 1, 40000)}
    \cup {Block(1, 1, 3, Float(1, 1, 0), 1, 0)}

\* blocks whose traces are read back by read_traces
TraceBlocks ==
    {Block(n, t, 5, Float(1, 1, 0), 1, 0) : n \in 1..MaxSamples, t \in 0..MaxTraces}

\* blocks written and read back in little-endian order
OrderedBlocks ==
    {Block(n, 1, dsf, Float(-1, 1, -1), 258, 0) : n \in 1..MaxSamples, dsf \in {1, 5}}

\* handles to read a file header from: a header of bytes 2, 1, 2, 1, ..., cut
\* at the start, inside Job, before and after the last byte of the last
\* field, one byte short of 3600, and whole
HeaderBuffers ==
    {[i \in 1..n |-> 1 + (i % 2)] : n \in {0, 3202, FH_END - 1, FH_END, FileHeaderBytes - 1,
                           FileHeaderBytes}}

FHKeySets == {FH_KEYS, {"Job"}, {"ns", "dt"}, {}}

\* trace-header buffers of bytes 2, 1, 2, 1, ..., cut likewise
TraceBuffersRaw ==
    {[i \in 1..n |-> 1 + (i % 2)] : n \in {0, 4, 80, TraceHeaderBytes - 1, TraceHeaderBytes}}

THKeySets == {TH_KEYS, {"TraceNumWithinLine"}, {"SourceX", "SourceY", "SourceDepth"}, {}}

\* files to read whole: a written block followed by part of a trace, and
\* files that end inside or right after the file header
FilesToRead ==
    {write_block(Block(n, t, 5, Float(1, 1, 0), 1, 0), TRUE).bytes \o Repeat(0, tail) :
        n \in 1..MaxSamples, t \in 0..MaxTraces,
        tail \in {1, TraceHeaderBytes, TraceHeaderBytes + 1}}
    \cup {Repeat(0, n) : n \in {0, FH_END, FileHeaderBytes - 1, FileHeaderBytes}}
    \cup {write_block(Block(1, 1, 3, Float(1, 1, 0), 1, 0), TRUE).bytes}

\* IBM words by sign bit, 7-bit exponent and 24-bit fraction
IbmWord(s, e, f) ==
    <<128 * s + e, f \div 65536, (f \div 256) % 256, f % 256>>

IbmExponents == {0, 1, 63, 64, 65, 127}

IbmFractions == {0, 1, 1048576, 8388608, 16777215}

\* values an IBM word can hold: 0, 1, 15, -2, 0.5 and 100.5
IbmSamples ==
    {Float(1, 0, 0), Float(1, 1, 0), Float(1, 15, 0), Float(-1, 1, 1),
     Float(1, 1, -1), Float(1, 201, -1)}

InitCodec ==
    /\ task = <<>>
    /\ scans = <<>>
    /\ outcome = Running
    /\ handles = {}
    /\ call = None
    /\ \/ /\ files = <<>>
          /\ \/ \E fh \in FileHeaders, o \in BOOLEAN :
                   cfg = Call("fileheader", fh, "fileheader", FH_KEYS, o)
             \/ \E th \in TraceHeaders, o \in BOOLEAN :
                   cfg = Call("traceheader", th, "traceheader", TH_KEYS, o)
             \/ \E b \in Blocks : cfg = PathCall("block", b, "file", TH_KEYS)
             \/ \E b \in TraceBlocks :
                   cfg = Call("block", b, "traces", TH_KEYS, TRUE)
             \/ \E b \in OrderedBlocks :
                   cfg = Call("block", b, "file", TH_KEYS, FALSE)
             \/ \E s \in {0, 1}, e \in IbmExponents, f \in IbmFractions :
                   cfg = Call("none", IbmWord(s, e, f), "ibm_to_ieee", {}, TRUE)
             \/ \E v \in IbmSamples :
                   cfg = Call("sample", v, "ibm_to_ieee", {}, TRUE)
       \/ \E b \in HeaderBuffers, keys \in FHKeySets, o \in BOOLEAN :
             /\ files = <<b>>
             /\ cfg = Call("none", None, "fileheader", keys, o)
       \/ \E b \in TraceBuffersRaw, keys \in THKeySets, o \in BOOLEAN :
             /\ files = <<b>>
             /\ cfg = Call("none", None, "traceheader", keys, o)
       \/ \E b \in TraceBuffersRaw, keys \in THKeySets :
             /\ files = <<b>>
             /\ cfg = Call("none", None, "_parse_header", keys, TRUE)
       \/ \E b \in FilesToRead :
             /\ files = <<b>>
             /\ cfg = PathCall("none", None, "file", TH_KEYS)

\* what a call that raised leaves
RaisedIn(error) == [status |-> error, value |-> None]

ReturnedValue(value) == [status |-> "ok", value |-> value]

\* the outcome of a decode: the header, or the error of StructError
Decoded(r) == IF r = StructError THEN RaisedIn(r.error) ELSE ReturnedValue(r)

\* a write on a new handle: the bytes it leaves and, when it raised, the error
Written(w) ==
    /\ files' = <<w.bytes>>
    /\ outcome' = IF w.error # "none" THEN RaisedIn(w.error) ELSE outcome
    /\ UNCHANGED <<cfg, task, scans, call>>

\* the handle a call by path holds; a call on a handle of the caller holds none
OwnHandles(fn) == IF cfg.path THEN {Handle(<<fn, 0>>, "path")} ELSE {}

\* open(path, "wb") of segy_write, and open(path, "rb") of segy_read once
\* the file exists
OpenPath ==
    /\ cfg.mode = "codec" /\ cfg.path
    /\ handles = {} /\ call = None /\ outcome = Running
    /\ \/ cfg.write = "block" /\ files = <<>> /\ handles' = OwnHandles("segy_write")
       \/ files # <<>> /\ handles' = OwnHandles("segy_read")
    /\ UNCHANGED <<files, cfg, task, scans, outcome, call>>

WriteFileHeader ==
    /\ cfg.mode = "codec" /\ cfg.write = "fileheader"
    /\ files = <<>> /\ outcome = Running
    /\ Written(write_fileheader(cfg.obj, cfg.bigendian))
    /\ UNCHANGED handles

WriteTraceHeader ==
    /\ cfg.mode = "codec" /\ cfg.write = "traceheader"
    /\ files = <<>> /\ outcome = Running
    /\ Written(write_traceheader(cfg.obj, cfg.bigendian))
    /\ UNCHANGED handles

\* WriteBlock that leaves the handle of segy_write open when it raises
WriteBlock_LeakOnError ==
    /\ cfg.mode = "codec" /\ cfg.write = "block"
    /\ files = <<>> /\ outcome = Running
    /\ handles = OwnHandles("segy_write")
    /\ Written(write_block(cfg.obj, cfg.bigendian))
    /\ handles' = IF write_block(cfg.obj, cfg.bigendian).error # "none" THEN handles
                  ELSE {}

\* write_block(f, block), by itself or inside the with block of segy_write,
\* which closes the handle when write_block returns and when it raises
WriteBlock ==
    /\ cfg.mode = "codec" /\ cfg.write = "block"
    /\ files = <<>> /\ outcome = Running
    /\ handles = OwnHandles("segy_write")
    /\ Written(write_block(cfg.obj, cfg.bigendian))
    /\ handles' = {}

\* a read of the handle from its start
Reads(name) ==
    /\ cfg.mode = "codec" /\ cfg.read = name
    /\ files # <<>> /\ outcome = Running
    /\ UNCHANGED <<files, cfg, task, scans, handles, call>>

ReadFileHeader ==
    /\ Reads("fileheader")
    /\ outcome' = Decoded(read_fileheader_keys(files[1], cfg.keys, cfg.bigendian))

ReadTraceHeader ==
    /\ Reads("traceheader")
    /\ outcome' = Decoded(read_traceheader(files[1], cfg.keys, cfg.bigendian))

ParseHeader ==
    /\ Reads("_parse_header")
    /\ outcome' = Decoded(_parse_header_bytes(files[1], cfg.keys))

\* the local variables of read_traces and read_traces_async: the zeroed
\* headers and data, the traces whose parse_one has completed (done) and
\* those the loop has placed
Zero == [s |-> 1, m |-> 0, e |-> 0]

TraceFrame(fn, fh, ns, ntraces, datatype, bigendian) ==
    [fn |-> fn, fh |-> fh, ns |-> ns, ntraces |-> ntraces, datatype |-> datatype,
     bigendian |-> bigendian,
     headers |-> [i \in 1..ntraces |-> BinaryTraceHeader],
     data |-> [j \in 1..ns |-> [i \in 1..ntraces |-> Zero]],
     done |-> {}, placed |-> {}]

\* raw = f.read(trace_size * ntraces) with f at the end of the file header
RawTraces(bytes, ns, ntraces) ==
    Slice(bytes, FileHeaderBytes,
          FileHeaderBytes + (TraceHeaderBytes + ns * SampleBytes) * ntraces)

\* read_file(f): the file header, ntraces by floor division and the start of
\* read_traces_async; inside segy_read a raise closes the handle
ReadFile ==
    /\ cfg.mode = "codec" /\ cfg.read = "file"
    /\ files # <<>> /\ outcome = Running /\ call = None
    /\ handles = OwnHandles("segy_read")
    /\ LET fh == read_fileheader_keys(files[1], FH_KEYS, cfg.bigendian)
       IN  IF fh = StructError
           THEN outcome' = Decoded(fh) /\ call' = call /\ handles' = {}
           ELSE LET ns == fh.bfh["ns"]
                    size == TraceHeaderBytes + ns * SampleBytes
                    ntraces == (Len(files[1]) - FileHeaderBytes) \div size
                IN  /\ call' = TraceFrame("read_traces_async", fh, ns, ntraces,
                                          fh.bfh["DataSampleFormat"], cfg.bigendian)
                    /\ UNCHANGED <<outcome, handles>>
    /\ UNCHANGED <<files, cfg, task, scans>>

\* read_traces(f, ns, ntraces, datatype) on the traces of the block written,
\* with f at the end of the file header
ReadTraces ==
    /\ cfg.mode = "codec" /\ cfg.read = "traces"
    /\ files # <<>> /\ outcome = Running /\ call = None
    /\ call' = TraceFrame("read_traces", None, cfg.obj.fileheader.bfh["ns"],
                          Len(cfg.obj.traceheaders),
                          cfg.obj.fileheader.bfh["DataSampleFormat"], cfg.bigendian)
    /\ UNCHANGED <<files, cfg, task, scans, outcome, handles>>

TraceCall == cfg.mode = "codec" /\ call # None /\ outcome = Running

\* one parse_one(idx) runs to its return, in any order among the tasks
ParseOne(idx) ==
    /\ TraceCall
    /\ idx \in 0..(call.ntraces - 1) /\ idx \notin call.done
    /\ call' = [call EXCEPT !.done = @ \cup {idx}]
    /\ UNCHANGED <<files, cfg, task, scans, outcome, handles>>

\* the result the loop takes next: pool.map yields the results in the order
\* of range(ntraces), as_completed any task that has completed
Yields(idx) ==
    /\ idx \in call.done \ call.placed
    /\ call.fn = "read_traces" => \A i \in 0..(idx - 1) : i \in call.placed

\* a loop body that appends the result to those placed so far
Place_ByArrival(idx) ==
    /\ TraceCall /\ Yields(idx)
    /\ LET r == parse_one(RawTraces(files[1], call.ns, call.ntraces), call.ns,
                          call.datatype, idx, call.bigendian)
           at == Cardinality(call.placed) + 1
       IN  call' = [call EXCEPT
                      !.headers[at] = r.hdr,
                      !.data = [j \in 1..call.ns |-> [@[j] EXCEPT ![at] = r.samples[j]]],
                      !.placed = @ \cup {idx}]
    /\ UNCHANGED <<files, cfg, task, scans, outcome, handles>>

\* the loop body: headers[idx] = hdr and data[j][idx] = v for every sample
Place(idx) ==
    /\ TraceCall /\ Yields(idx)
    /\ LET r == parse_one(RawTraces(files[1], call.ns, call.ntraces), call.ns,
                          call.datatype, idx, call.bigendian)
       IN  call' = [call EXCEPT
                      !.headers[idx + 1] = r.hdr,
                      !.data = [j \in 1..call.ns |->
                                  [@[j] EXCEPT ![idx + 1] = r.samples[j]]],
                      !.placed = @ \cup {idx}]
    /\ UNCHANGED <<files, cfg, task, scans, outcome, handles>>

\* return headers, data; read_file wraps them in a SeisBlock and segy_read
\* leaves its with block
ReturnTraces ==
    /\ TraceCall
    /\ call.placed = 0..(call.ntraces - 1)
    /\ outcome' = ReturnedValue(SeisBlock(call.fh, call.headers, call.data))
    /\ call' = None
    /\ handles' = {}
    /\ UNCHANGED <<files, cfg, task, scans>>

\* ibm_to_ieee of the word given to the call, or of the word that
\* ieee_to_ibm made of the sample given to the call
IbmToIeee ==
    /\ cfg.mode = "codec" /\ cfg.read = "ibm_to_ieee"
    /\ outcome = Running
    /\ cfg.write = "sample" => files # <<>>
    /\ outcome' = ReturnedValue(ibm_to_ieee(IF cfg.write = "sample" THEN files[1]
                                            ELSE cfg.obj))
    /\ UNCHANGED <<files, cfg, task, scans, handles, call>>

\* ieee_to_ibm of the sample given to the call, or of the value that
\* ibm_to_ieee made of the word given to the call
IeeeToIbm ==
    /\ cfg.mode = "codec" /\ cfg.read = "ibm_to_ieee"
    /\ files = <<>>
    /\ \/ cfg.write = "sample" /\ outcome = Running
       \/ cfg.write = "none" /\ outcome.status = "ok"
    /\ LET f == IF cfg.write = "sample" THEN cfg.obj ELSE outcome.value
       IN  IF IbmEncodable(f)
           THEN files' = <<ieee_to_ibm(f)>> /\ outcome' = outcome
           ELSE files' = <<<<>>>> /\ outcome' = RaisedIn("OverflowError")
    /\ UNCHANGED <<cfg, task, scans, handles, call>>

NextCodec ==
    \/ WriteFileHeader
    \/ WriteTraceHeader
    \/ WriteBlock
    \/ ReadFileHeader
    \/ ReadTraceHeader
    \/ ParseHeader
    \/ OpenPath
    \/ ReadFile
    \/ ReadTraces
    \/ \E idx \in 0..(MaxTraces - 1) : ParseOne(idx)
    \/ \E idx \in 0..(MaxTraces - 1) : Place(idx)
    \/ ReturnTraces
    \/ IbmToIeee
    \/ IeeeToIbm

\* header and sample codec calls
SpecCodec == InitCodec /\ [][NextCodec]_vars

\* every operation that opens a file: scans of a path and of a directory,
\* reads of a shot, segy_write and segy_read
NextOps == Next \/ NextShot \/ NextCodec

SpecOps == (InitFile \/ InitDir \/ InitCodec) /\ [][NextOps]_vars

(***************************************************************************)
(* C11: when the scan of a file of a directory scan fails, segy_scan       *)
(* raises: no catalog is returned, neither one that omits the failed file  *)
(* nor any other, whichever file fails and in whatever order the other     *)
(* scans complete.                                                         *)
(***************************************************************************)
ScanFails(f) == ~HeaderReadable(files[f])

C11_NoCatalogWhenAFileScanFails ==
    (cfg.mode = "dir" /\ \E f \in Files : ScanFails(f)) =>
        /\ ~Returned
        /\ outcome.scan = None
        /\ outcome # Running => outcome.status = "struct.error"

\* segy_scan has raised the error of a failed file scan although the scan of
\* another file, with records, succeeded
C11_Witness ==
    /\ cfg.mode = "dir"
    /\ outcome.status = "struct.error"
    /\ \E f, g \in Files :
          /\ ScanFails(f)
          /\ ~ScanFails(g)
          /\ task[g].pc \in {"finished", "collected"}
          /\ task[g].result.records # <<>>

(***************************************************************************)
(* C12: scanning a file whose size minus 3600 is not a multiple of the     *)
(* trace size 240 + 4*ns fails and returns no catalog.                     *)
(***************************************************************************)
Truncated(file) ==
    /\ HeaderReadable(file)
    /\ (FileSize(file) - 3600) % (240 + 4 * Int16(file.hdr.ns)) # 0

C12_TruncatedFileFails ==
    (cfg.mode = "file" /\ Truncated(files[1])) => ~Returned

(***************************************************************************)
(* Ground truth for the codec claims, computed from the bytes of the       *)
(* handle and from the arguments of the call.                              *)
(***************************************************************************)
InRange16(v) == v >= -32768 /\ v <= 32767

FHInRange(bfh) == \A k \in FH_KEYS : FHSize(k) = 2 => InRange16(bfh[k])

THInRange(th) == \A k \in TH_KEYS : THSize(k) = 2 => InRange16(th[k])

\* the call has returned or raised
Done == outcome # Running

Reading(name) == cfg.mode = "codec" /\ cfg.write = "none" /\ cfg.read = name

Wrote(name) == cfg.mode = "codec" /\ cfg.write = name /\ files # <<>>

\* the bytes of the handle at a field of a table, decoded as signed in the order of the call
StoredAt(table, int32, k) ==
    LET size == IF k \in int32 THEN 4 ELSE 2
    IN  Unpack(Slice(files[1], OffsetIn(table, k), OffsetIn(table, k) + size),
               cfg.bigendian)

\* offset i (from 0) lies inside a field of the table
Covered(table, int32, i) ==
    \E k \in KeysOfTable(table) :
        /\ i >= OffsetIn(table, k)
        /\ i < OffsetIn(table, k) + (IF k \in int32 THEN 4 ELSE 2)

(***************************************************************************)
(* C13: read_file on a handle whose size minus 3600 is not a multiple of   *)
(* 240 + 4*ns fails; it does not return a SeisBlock of the whole traces.   *)
(***************************************************************************)
C13_TruncatedHandleFails ==
    (/\ Reading("file")
     /\ Len(files[1]) >= FH_END
     /\ (Len(files[1]) - 3600) % (240 + 4 * Int16(Slice(files[1], 3220, 3222))) # 0
     /\ Done)
    => outcome.status # "ok"

(***************************************************************************)
(* C14: a header decode from fewer bytes than the header's fixed size      *)
(* (3600 for read_fileheader, 240 for read_traceheader and _parse_header)  *)
(* fails, whatever fields are requested; it never returns a header.        *)
(***************************************************************************)
C14_ShortBufferFails ==
    /\ (Reading("fileheader") /\ Len(files[1]) < 3600 /\ Done)
          => outcome.status # "ok"
    /\ (/\ Reading("traceheader") \/ Reading("_parse_header")
        /\ Len(files[1]) < 240
        /\ Done)
          => outcome.status # "ok"

(***************************************************************************)
(* C15: decoding what the encoder wrote for a header of in-range field     *)
(* values, with every field requested, gives every table field its         *)
(* assigned value (0 where none was assigned), for file headers and for    *)
(* trace headers.                                                          *)
(***************************************************************************)
C15_DecodeOfEncodeIsIdentity ==
    /\ (Wrote("fileheader") /\ FHInRange(cfg.obj.bfh) /\ Done) =>
          /\ outcome.status = "ok"
          /\ \A k \in FH_KEYS : outcome.value.bfh[k] = cfg.obj.bfh[k]
    /\ (Wrote("traceheader") /\ THInRange(cfg.obj) /\ Done) =>
          /\ outcome.status = "ok"
          /\ \A k \in TH_KEYS : outcome.value[k] = cfg.obj[k]

(***************************************************************************)
(* C16: after write_fileheader or write_traceheader of a header of         *)
(* in-range values, the handle holds every field of the table at its table *)
(* offset with its width, and every byte of the binary block (3200..3599,  *)
(* or 0..239 of a trace header) that no field covers is zero.              *)
(***************************************************************************)
C16_FieldsAtTableOffsets ==
    /\ (Wrote("fileheader") /\ FHInRange(cfg.obj.bfh)) =>
          /\ \A k \in FH_KEYS : StoredAt(FH_BYTE2SAMPLE, FH_INT32_FIELDS, k) = cfg.obj.bfh[k]
          /\ \A i \in 3200..3599 :
                ~Covered(FH_BYTE2SAMPLE, FH_INT32_FIELDS, i) => files[1][i + 1] = 0
    /\ (Wrote("traceheader") /\ THInRange(cfg.obj)) =>
          /\ \A k \in TH_KEYS : StoredAt(TH_BYTE2SAMPLE, TH_INT32_FIELDS, k) = cfg.obj[k]
          /\ \A i \in 0..239 :
                ~Covered(TH_BYTE2SAMPLE, TH_INT32_FIELDS, i) => files[1][i + 1] = 0

(***************************************************************************)
(* C17: write_fileheader leaves exactly 3600 bytes: the first 3200 are the *)
(* text, padded with spaces when shorter and cut when longer.  As stated,  *)
(* for every FileHeader.                                                   *)
(***************************************************************************)
TextPreamble(th) ==
    \A i \in 1..3200 : files[1][i] = IF i <= Len(th) THEN th[i] ELSE Space

C17_Always3600Bytes ==
    Wrote("fileheader") => Len(files[1]) = 3600 /\ TextPreamble(cfg.obj.th)

\* C17, amended: for every FileHeader whose 2-byte fields hold values of
\* -32768..32767, write_fileheader leaves exactly 3600 bytes, the first 3200
\* being the text padded with spaces or cut
C17_InRange3600Bytes ==
    (Wrote("fileheader") /\ FHInRange(cfg.obj.bfh)) =>
        Len(files[1]) = 3600 /\ TextPreamble(cfg.obj.th)

\* a header with a text longer than 3200 bytes and a field set has been written
C17_Witness ==
    /\ Wrote("fileheader")
    /\ Len(cfg.obj.th) > 3200
    /\ cfg.obj.bfh["ns"] = 32767
    /\ Len(files[1]) = 3600

(***************************************************************************)
(* C18: a decode with a field subset gives every requested field the value *)
(* at its offset and leaves every other table field 0, whatever the buffer *)
(* holds there.                                                            *)
(***************************************************************************)
C18_UnrequestedFieldsAreZero ==
    /\ (Reading("fileheader") /\ Done /\ outcome.status = "ok") =>
          \A k \in FH_KEYS :
              outcome.value.bfh[k] =
                  IF k \in cfg.keys THEN StoredAt(FH_BYTE2SAMPLE, FH_INT32_FIELDS, k) ELSE 0
    /\ (/\ Reading("traceheader") \/ Reading("_parse_header")
        /\ Done /\ outcome.status = "ok") =>
          \A k \in TH_KEYS :
              outcome.value[k] =
                  IF k \in cfg.keys THEN StoredAt(TH_BYTE2SAMPLE, TH_INT32_FIELDS, k) ELSE 0

\* read_traceheader returned a header for three requested fields from a
\* whole buffer that holds non-zero bytes at the fields not requested
C18_Witness ==
    /\ Reading("traceheader")
    /\ cfg.keys = {"SourceX", "SourceY", "SourceDepth"}
    /\ Len(files[1]) = 240
    /\ StoredAt(TH_BYTE2SAMPLE, TH_INT32_FIELDS, "GroupX") # 0
    /\ Done /\ outcome.status = "ok"
    /\ outcome.value["SourceX"] # 0

(***************************************************************************)
(* C19: write_block followed by read_file, under an IEEE sample format,    *)
(* returns the same number of traces in the same order, the same value of  *)
(* every trace-header field and the same sample at every position.  As     *)
(* stated, for every block of consistent shape.                            *)
(***************************************************************************)
IeeeBlock == Wrote("block") /\ cfg.obj.fileheader.bfh["DataSampleFormat"] # 1

SameBlock(out, block) ==
    /\ Len(out.traceheaders) = Len(block.traceheaders)
    /\ \A i \in 1..Len(block.traceheaders) :
          \A k \in TH_KEYS : out.traceheaders[i][k] = block.traceheaders[i][k]
    /\ Len(out.data) = Len(block.data)
    /\ \A j \in 1..Len(block.data) :
          /\ Len(out.data[j]) = Len(block.data[j])
          /\ \A i \in 1..Len(block.data[j]) :
                FloatEq(out.data[j][i], block.data[j][i])

C19_BlockRoundTrip ==
    (IeeeBlock /\ Done) =>
        outcome.status = "ok" /\ SameBlock(outcome.value, cfg.obj)

\* the value is that of an IEEE single
IsSingle(x) == PackFloat(x).ok /\ Float32Round(x) = x

SinglesOnly(block) ==
    \A j \in 1..Len(block.data) :
        \A i \in 1..Len(block.data[j]) : IsSingle(block.data[j][i])

\* C19, amended: the round trip holds for every block of consistent shape
\* whose samples are values of IEEE single precision and whose header
\* fields fit their field widths
C19_SinglePrecisionRoundTrip ==
    (/\ IeeeBlock /\ Done
     /\ SinglesOnly(cfg.obj)
     /\ FHInRange(cfg.obj.fileheader.bfh)
     /\ \A i \in 1..Len(cfg.obj.traceheaders) : THInRange(cfg.obj.traceheaders[i]))
    => outcome.status = "ok" /\ SameBlock(outcome.value, cfg.obj)

\* a block of two traces of two samples, with negative SourceX and the
\* sample -0.5, has been written and read back
C19_Witness ==
    /\ IeeeBlock /\ Done
    /\ Len(cfg.obj.traceheaders) = 2
    /\ Len(cfg.obj.data) = 2
    /\ cfg.obj.traceheaders[2]["SourceX"] = -2
    /\ cfg.obj.data[2][2] = Float(-1, 1, -1)
    /\ outcome.status = "ok"

(***************************************************************************)
(* C20: ibm_to_ieee of the word with sign bit s, exponent e and fraction f *)
(* is 0 when the word is zero and (-1)^s * (f / 2^24) * 16^(e - 64)        *)
(* otherwise; the bytes 41 10 00 00 give exactly 1.0.                      *)
(***************************************************************************)
\* (-1)^s * (f / 2^24) * 16^(e - 64) = (-1)^s * f * 2^(4e - 280)
IbmValue(s, e, f) == Normal(IF s = 1 THEN -1 ELSE 1, f, 4 * e - 280)

C20_IbmToIeeeValue ==
    (Reading("ibm_to_ieee") /\ files = <<>> /\ Done) =>
        /\ outcome.status = "ok"
        /\ \A s \in {0, 1}, e \in 0..127, f \in IbmFractions :
              cfg.obj = IbmWord(s, e, f) =>
                  FloatEq(outcome.value, IbmValue(s, e, f))
        /\ cfg.obj = <<65, 16, 0, 0>> => outcome.value = [s |-> 1, m |-> 1, e |-> 0]

\* the word 41 10 00 00 has been converted
C20_Witness ==
    /\ Reading("ibm_to_ieee") /\ files = <<>>
    /\ cfg.obj = <<65, 16, 0, 0>>
    /\ Done /\ outcome.status = "ok"

(***************************************************************************)
(* C21: the IBM sample path round-trips: ibm_to_ieee(ieee_to_ibm(v)) = v   *)
(* for every value v an IBM word can hold, ieee_to_ibm(ibm_to_ieee(b)) = b *)
(* for every normalised non-zero word b, and 0.0 encodes to four zero      *)
(* bytes.                                                                  *)
(***************************************************************************)
\* the word is not zero and the first hexadecimal digit of its fraction is
\* not zero
NormalisedWord(b) == b[2] >= 16

C21_IbmRoundTrip ==
    /\ (cfg.mode = "codec" /\ cfg.write = "sample" /\ Done) =>
          outcome.status = "ok" /\ FloatEq(outcome.value, cfg.obj)
    /\ (cfg.mode = "codec" /\ cfg.write = "sample" /\ files # <<>> /\ cfg.obj.m = 0) =>
          files[1] = <<0, 0, 0, 0>>
    /\ (/\ cfg.mode = "codec" /\ cfg.write = "none" /\ cfg.read = "ibm_to_ieee"
        /\ NormalisedWord(cfg.obj)
        /\ files # <<>>) =>
          files[1] = cfg.obj

(***************************************************************************)
(* C22: writing or reading samples under a DataSampleFormat code other     *)
(* than 1 (IBM float) and 5 (4-byte IEEE float) fails; no sample bytes and *)
(* no sample values are produced.                                          *)
(***************************************************************************)
Supported(dsf) == dsf \in {1, 5}

C22_UnsupportedFormatFails ==
    /\ (Wrote("block") /\ ~Supported(cfg.obj.fileheader.bfh["DataSampleFormat"])) =>
          outcome.status \notin {"running", "ok"}
    /\ (/\ Reading("file")
        /\ Len(files[1]) >= FH_END
        /\ ~Supported(Int16(Slice(files[1], 3224, 3226)))
        /\ Done) =>
          outcome.status # "ok"

(***************************************************************************)
(* C23: in either byte order a 2-byte or 4-byte header field is decoded as *)
(* the signed two's-complement integer its bytes hold in the order         *)
(* selected on the call; a trace header whose values fit their widths is   *)
(* written with its bytes in the selected order and reads back unchanged   *)
(* in the same order.                                                      *)
(***************************************************************************)
\* the two's-complement value of 2 or 4 bytes, most significant byte first
\* or last
SignedValue(b, bigendian) ==
    IF Len(b) = 2
    THEN IF bigendian THEN SignedTop(b[1]) * 256 + b[2]
         ELSE SignedTop(b[2]) * 256 + b[1]
    ELSE IF bigendian
         THEN SignedTop(b[1]) * 16777216 + b[2] * 65536 + b[3] * 256 + b[4]
         ELSE SignedTop(b[4]) * 16777216 + b[3] * 65536 + b[2] * 256 + b[1]

\* the bytes of the handle that hold field k of a table
FieldBytes(table, int32, k) ==
    Slice(files[1], OffsetIn(table, k),
          OffsetIn(table, k) + (IF k \in int32 THEN 4 ELSE 2))

InWidth(v, w) ==
    IF w = 2 THEN v >= -32768 /\ v <= 32767
    ELSE v >= -2147483647 - 1 /\ v <= 2147483647

C23_SignedFieldsInSelectedOrder ==
    /\ (Reading("traceheader") /\ Done /\ outcome.status = "ok") =>
          \A k \in cfg.keys :
              /\ outcome.value[k] =
                    SignedValue(FieldBytes(TH_BYTE2SAMPLE, TH_INT32_FIELDS, k),
                                cfg.bigendian)
              /\ InWidth(outcome.value[k], THSize(k))
    /\ (Reading("fileheader") /\ Done /\ outcome.status = "ok") =>
          \A k \in cfg.keys :
              /\ outcome.value.bfh[k] =
                    SignedValue(FieldBytes(FH_BYTE2SAMPLE, FH_INT32_FIELDS, k),
                                cfg.bigendian)
              /\ InWidth(outcome.value.bfh[k], FHSize(k))
    /\ (Wrote("traceheader") /\ THInRange(cfg.obj)) =>
          /\ outcome.status \in {"running", "ok"}
          /\ \A k \in TH_KEYS :
                SignedValue(FieldBytes(TH_BYTE2SAMPLE, TH_INT32_FIELDS, k),
                            cfg.bigendian) = cfg.obj[k]
          /\ Done => outcome.value = cfg.obj

\* a trace header with ns = -32768 has been written and read back in
\* little-endian order
C23_Witness ==
    /\ Wrote("traceheader") /\ ~cfg.bigendian
    /\ cfg.obj["ns"] = -32768
    /\ Done /\ outcome.status = "ok"
    /\ outcome.value["ns"] = -32768

(***************************************************************************)
(* C27: in read_traces and read_traces_async, whatever the order in which  *)
(* the per-trace decodes complete, every trace placed so far sits at its   *)
(* own index, and on return headers[i] and column i of the data are the    *)
(* header and the samples of the i-th trace of the file, with as many      *)
(* headers as columns as ntraces.                                          *)
(***************************************************************************)
\* the i-th trace (from 1) of the handle, for the ns of its file header
TraceBytes(i) ==
    LET size == TraceHeaderBytes
                + StoredAt(FH_BYTE2SAMPLE, FH_INT32_FIELDS, "ns") * SampleBytes
    IN  Slice(files[1], FileHeaderBytes + (i - 1) * size, FileHeaderBytes + i * size)

\* sample j (from 1) of the i-th trace, decoded by the format of the file
SampleAt(i, j) ==
    LET word == Slice(TraceBytes(i), TraceHeaderBytes + SampleBytes * (j - 1),
                      TraceHeaderBytes + SampleBytes * j)
    IN  IF StoredAt(FH_BYTE2SAMPLE, FH_INT32_FIELDS, "DataSampleFormat") = 1
        THEN ibm_to_ieee(word)
        ELSE UnpackFloat(IF cfg.bigendian THEN word
                         ELSE <<word[4], word[3], word[2], word[1]>>)

\* headers[i] and column i are those of the i-th trace
InPlace(headers, data, i) ==
    /\ headers[i] = read_traceheader(TraceBytes(i), TH_KEYS, cfg.bigendian)
    /\ \A j \in 1..Len(data) : data[j][i] = SampleAt(i, j)

\* as many headers as columns as n
Shape(headers, data, n) ==
    /\ Len(headers) = n
    /\ \A j \in 1..Len(data) : Len(data[j]) = n

C27_TracesPlacedByIndex ==
    /\ (cfg.mode = "codec" /\ call # None) =>
          /\ Shape(call.headers, call.data, IF call.ntraces > 0 THEN call.ntraces ELSE 0)
          /\ Len(call.data) = call.ns
          /\ \A idx \in call.placed : InPlace(call.headers, call.data, idx + 1)
    /\ (cfg.mode = "codec" /\ cfg.read \in {"file", "traces"} /\ Done
        /\ outcome.status = "ok") =>
          LET size == TraceHeaderBytes
                      + StoredAt(FH_BYTE2SAMPLE, FH_INT32_FIELDS, "ns") * SampleBytes
              n == IF cfg.read = "traces" THEN Len(cfg.obj.traceheaders)
                   ELSE (Len(files[1]) - FileHeaderBytes) \div size
          IN  /\ Shape(outcome.value.traceheaders, outcome.value.data,
                       IF n > 0 THEN n ELSE 0)
              /\ \A i \in 1..n :
                    InPlace(outcome.value.traceheaders, outcome.value.data, i)
              /\ cfg.read = "file" =>
                    outcome.value = read_file(files[1], cfg.bigendian)

\* read_traces_async has placed the third trace while the first is not placed
C27_Witness ==
    /\ cfg.mode = "codec" /\ call # None
    /\ call.fn = "read_traces_async"
    /\ 2 \in call.placed /\ 0 \notin call.placed
    /\ call.headers[3]["SourceX"] # call.headers[1]["SourceX"]

(***************************************************************************)
(* Ground truth for the reads of a shot: the traces that the segments of   *)
(* the record name, by their index in the file.                            *)
(***************************************************************************)
\* the trace indices (from 0) of the segments, in segment order
RECURSIVE Positions(_, _)
Positions(segments, ns) ==
    IF segments = <<>> THEN <<>>
    ELSE [i \in 1..Head(segments)[2] |-> TraceIndex(Head(segments)[1], ns) + i - 1]
         \o Positions(Tail(segments), ns)

\* a read_shot or read_headers call has ended
ReadEnded(op) ==
    cfg.mode = "file" /\ call # None /\ call.op = op /\ call.status # "running"

\* headers are the headers of the whole traces of the file at the positions
HeadersAt(headers, file, pos) ==
    /\ Len(headers) = Len(pos)
    /\ \A i \in 1..Len(pos) :
          /\ pos[i] < NTraces(file)
          /\ \A k \in TraceFields : headers[i][k] = FieldAt(file, pos[i] + 1, k)

(***************************************************************************)
(* C24: read_shot on a record with segments (o1,c1) ... (ok,ck) returns a  *)
(* block whose headers are the c1 + ... + ck traces at those positions in  *)
(* segment order and whose data has ns rows and c1 + ... + ck columns,     *)
(* column i holding the samples of the i-th header, also when k > 1.       *)
(***************************************************************************)
C24_ReadShotReturnsSegments ==
    ReadEnded("read_shot") =>
        LET file == files[Rec.path]
            ns == Int16(file.hdr.ns)
            pos == Positions(Rec.segments, ns)
        IN  /\ call.status = "ok"
            /\ HeadersAt(call.result.traceheaders, file, pos)
            /\ Len(call.result.data) = ns
            /\ \A j \in 1..ns :
                  /\ Len(call.result.data[j]) = Len(pos)
                  /\ \A i \in 1..Len(pos) :
                        call.result.data[j][i] = [trace |-> pos[i], row |-> j]

(***************************************************************************)
(* C25: read_headers(idx) returns exactly counts[idx] headers, those of    *)
(* the traces at the positions of the segments, segments in list order and *)
(* traces in file order.                                                   *)
(***************************************************************************)
C25_ReadHeadersReturnsCounts ==
    ReadEnded("read_headers") =>
        LET file == files[Rec.path]
        IN  /\ call.status = "ok"
            /\ Len(call.result) = SumCounts(Rec.segments)
            /\ HeadersAt(call.result, file,
                         Positions(Rec.segments, Int16(file.hdr.ns)))

(***************************************************************************)
(* C28: for every record of a catalog that a scan produced, every segment  *)
(* that read_shot and read_headers read lies after the file header and     *)
(* before the end of the file, and every trace they return has the shot    *)
(* of the record.                                                          *)
(***************************************************************************)
C28_ReadsStayInsideTheShot ==
    (cfg.mode = "file" /\ call # None) =>
        LET file == files[Rec.path]
            size == TraceHeaderBytes + SampleBytes * Int16(file.hdr.ns)
            headers == IF call.op = "read_shot" THEN call.result.traceheaders
                       ELSE call.result
        IN  /\ \A s \in 1..Len(Rec.segments) :
                  /\ Rec.segments[s][1] >= FileHeaderBytes
                  /\ Rec.segments[s][1] + Rec.segments[s][2] * size <= FileSize(file)
            /\ call.status = "ok" =>
                  \A i \in 1..Len(headers) : ShotOf(headers[i]) = Rec.shot

(***************************************************************************)
(* C26: a file handle is open only while the operation that opened it is   *)
(* running: the handle of a per-file scan task, of a segment read by       *)
(* read_shot or read_headers, of segy_write and of segy_read is closed     *)
(* once the operation has returned or raised; every scan task has its own  *)
(* handle, on its own file.                                                *)
(***************************************************************************)
C26_HandlesClosedAtExit ==
    /\ \A h \in handles :
          \/ /\ h.owner[1] = "scan"
             /\ cfg.mode \in {"file", "dir"}
             /\ h.owner[2] \in Files
             /\ task[h.owner[2]].pc = "scan"
             /\ h.path = files[h.owner[2]].path
          \/ /\ h.owner[1] \in {"read_shot", "read_headers"}
             /\ cfg.mode = "file" /\ call # None
             /\ call.status = "running"
             /\ h.owner = <<call.op, call.idx>>
             /\ h.path = Rec.path
          \/ /\ h.owner = <<"segy_write", 0>>
             /\ cfg.mode = "codec" /\ cfg.path
             /\ outcome = Running /\ files = <<>>
          \/ /\ h.owner = <<"segy_read", 0>>
             /\ cfg.mode = "codec" /\ cfg.path
             /\ outcome = Running
    /\ \A h1, h2 \in handles : h1.owner = h2.owner => h1 = h2
    /\ (cfg.mode \in {"file", "codec"} /\ outcome # Running
        /\ (call # None => cfg.mode = "file" /\ call.status # "running")) =>
          handles = {}

\* read_shot or read_headers has raised inside its with block and no handle
\* is open
C26_Witness ==
    /\ cfg.mode = "file" /\ call # None
    /\ call.status = "struct.error"
    /\ call.seg <= Len(Rec.segments)
    /\ handles = {}

(***************************************************************************)
(* C29: in a multi-file scan the merge begins only after every per-file    *)
(* scan task has completed and segy_scan returns or raises only after      *)
(* that: whenever segy_scan has ended no file task is queued or running,   *)
(* and a catalog is the merge of the scans of all the files.               *)
(***************************************************************************)
TaskRunning(f) == task[f].pc \in {"queued", "scan"}

C29_MergeAfterAllTasks ==
    (cfg.mode = "dir" /\ outcome # Running) =>
        /\ \A f \in Files : ~TaskRunning(f)
        /\ Returned =>
              /\ \A f \in Files : task[f].pc = "collected"
              /\ Len(scans) = Len(files)

\* a catalog of two files has been returned, both scans collected
C29_Witness ==
    /\ cfg.mode = "dir"
    /\ Returned
    /\ Len(files) = 2
    /\ Len(scans) = 2
    /\ Len(Catalog) >= 2

(***************************************************************************)
(* C30: while a file is scanned, at most `workers` header-decode tasks     *)
(* hold the semaphore at the same time, and during a multi-file scan at    *)
(* most `threads` files are being scanned at the same time.                *)
(***************************************************************************)
\* the decode tasks of file f that hold the semaphore
Decoding(f) ==
    IF task[f].pc = "scan" THEN Holders(task[f].pending, cfg.workers) ELSE {}

Scanning == {f \in Files : task[f].pc = "scan"}

FieldRange(table, k) ==
    IF table = "FH"
    THEN [lo |-> OffsetIn(FH_BYTE2SAMPLE, k),
          hi |-> OffsetIn(FH_BYTE2SAMPLE, k) + FHSize(k)]
    ELSE [lo |-> OffsetIn(TH_BYTE2SAMPLE, k),
          hi |-> OffsetIn(TH_BYTE2SAMPLE, k) + THSize(k)]

Table(table) == IF table = "FH" THEN FH_BYTE2SAMPLE ELSE TH_BYTE2SAMPLE

TableKeys(table) == IF table = "FH" THEN FH_KEYS ELSE TH_KEYS

\* the fields whose bytes include byte b of the header
FieldsAt(table, b) ==
    {k \in TableKeys(table) :
        FieldRange(table, k).lo <= b /\ b < FieldRange(table, k).hi}

\* the bytes of the binary file header and of a trace header
HeaderRegion(table) ==
    IF table = "FH" THEN TextHeaderBytes..(FileHeaderBytes - 1)
    ELSE 0..(TraceHeaderBytes - 1)

Lookup(table, first, second, byte) ==
    [mode |-> "tables", table |-> table, first |-> first, second |-> second,
     byte |-> byte]

Lookups ==
    UNION {{Lookup(t, a, b, Table(t)[1][2]) : a, b \in TableKeys(t)}
           \cup {Lookup(t, Table(t)[1][1], Table(t)[1][1], x) : x \in HeaderRegion(t)} :
           t \in {"FH", "TH"}}

InitTables ==
    /\ files = <<>>
    /\ cfg \in Lookups
    /\ task = <<>>
    /\ scans = <<>>
    /\ outcome = Running
    /\ handles = {}
    /\ call = None

LookupFields(table) ==
    /\ cfg.mode = "tables"
    /\ cfg.table = table
    /\ outcome = Running
    /\ outcome' = [status |-> "ok",
                   value |-> [first |-> FieldRange(table, cfg.first),
                              second |-> FieldRange(table, cfg.second),
                              holders |-> FieldsAt(table, cfg.byte)]]
    /\ UNCHANGED <<files, cfg, task, scans, handles, call>>

FileHeaderFields == LookupFields("FH")

TraceHeaderFields == LookupFields("TH")

NextTables == FileHeaderFields \/ TraceHeaderFields

SpecTables == InitTables /\ [][NextTables]_vars

Disjoint(r1, r2) == r1.hi <= r2.lo \/ r2.hi <= r1.lo

Within(r, region) == \A b \in r.lo..(r.hi - 1) : b \in region

\* C36: in both field tables the byte ranges [offset, offset + width) of two
\* distinct fields never overlap; every trace-header field lies within
\* [0,240) and every byte of [0,240) belongs to a field; every file-header
\* field lies within [3200,3600).
C36_FieldRangesDisjoint ==
    (cfg.mode = "tables" /\ Done) =>
        LET v == outcome.value
        IN  /\ cfg.first # cfg.second => Disjoint(v.first, v.second)
            /\ Cardinality(v.holders) <= 1
            /\ Within(v.first, HeaderRegion(cfg.table))
            /\ cfg.table = "TH" => Cardinality(v.holders) = 1

\* two neighbouring trace-header fields, 2 bytes each, have been looked up
C36_Witness ==
    /\ cfg.mode = "tables"
    /\ Done
    /\ cfg.table = "TH"
    /\ cfg.first = "TraceIDCode"
    /\ cfg.second = "NSummedTraces"
    /\ outcome.value.first = [lo |-> 28, hi |-> 30]
    /\ outcome.value.second = [lo |-> 30, hi |-> 32]
    /\ outcome.value.holders = {"TraceNumWithinLine"}

(***************************************************************************)
(* The sequential scan, _scan_file(path, keys, chunk), called directly.    *)
(* _iter_trace_headers reads the headers chunk by chunk and pool.map hands *)
(* the parsed headers of a chunk back in the order of the slices.          *)
(***************************************************************************)
InitSeq ==
    /\ \/ \E t \in TraceLists(MaxTraces), tl \in Tails :
             files = <<File(1, HeaderBytes("A", 1, 0), t, tl)>>
       \/ files = <<File(1, EmptyFileBytes, <<>>, 0)>>
    /\ \E k \in ExtraKeySets, c \in 1..MaxChunk :
          cfg = [mode |-> "seq", keys |-> k, chunk |-> c]
    /\ task = [f \in Files |-> Queued]
    /\ scans = <<>>
    /\ outcome = Running
    /\ handles = {}
    /\ call = None

\* with open(path, "rb") as f: fh = read_fileheader(f), total, f.seek(3600)
SeqOpen ==
    /\ cfg.mode = "seq"
    /\ OpenScan(1)

\* the next pair of _iter_trace_headers, the lowest index of the chunk not
\* yet yielded, and the loop body of _scan_file on it; after the last pair
\* of a chunk pos and remaining move on and the next chunk is read
SeqHeader ==
    /\ cfg.mode = "seq"
    /\ task[1].pc = "scan"
    /\ task[1].pending # {}
    /\ LET t == task[1]
           i == CHOOSE x \in t.pending : \A y \in t.pending : x <= y
           offset == t.pos + i * trace_size(t.ns)
           hdr == _parse_header(SliceAt(files[1], t.ns, t.pos, i), trace_keys(cfg.keys))
           s2 == ConsumeHeader(t.scan, files[1].path, t.fh, offset, hdr, cfg.keys)
           last == t.pending = {i}
           rem2 == IF last THEN t.remaining - t.n ELSE t.remaining
       IN  task' = [task EXCEPT ![1] =
                [t EXCEPT !.scan = s2,
                          !.yielded = Append(@, offset),
                          !.pos = IF last THEN @ + t.n * trace_size(t.ns) ELSE @,
                          !.remaining = rem2,
                          !.n = IF last THEN ChunkSize(rem2) ELSE @,
                          !.pending = IF last THEN 0..(ChunkSize(rem2) - 1)
                                      ELSE @ \ {i}]]
    /\ UNCHANGED <<files, cfg, scans, outcome, handles, call>>

\* the iterator is exhausted: final segment, the with block ends, sort
SeqClose ==
    /\ cfg.mode = "seq"
    /\ CloseFile(1)

\* return SegyScan(fh, record_list), or the exception of read_fileheader
SeqReturn ==
    /\ cfg.mode = "seq"
    /\ outcome = Running
    /\ task[1].pc \in {"finished", "failed"}
    /\ outcome' = IF task[1].pc = "failed" THEN Raised(task[1].result)
                  ELSE [status |-> "ok", scan |-> task[1].result]
    /\ task' = [task EXCEPT ![1].pc = "collected"]
    /\ UNCHANGED <<files, cfg, scans, handles, call>>

NextSeq == SeqOpen \/ SeqHeader \/ SeqClose \/ SeqReturn

SpecSeq == InitSeq /\ [][NextSeq]_vars

\* the segments of a scan in progress: the closed segments of every record
\* and, when a header has been consumed, the open segment
Segment(key, seg, ns) ==
    [key |-> key, offset |-> seg[1], count |-> seg[2],
     first |-> TraceIndex(seg[1], ns)]

ClosedSegments(t) ==
    {id \in (1..Len(t.scan.records)) \X (1..MaxTraces) :
        id[2] <= Len(t.scan.records[id[1]].segments)}

SegmentIds(t) ==
    ClosedSegments(t) \cup (IF t.scan.previous # None THEN {<<0, 0>>} ELSE {})

SegmentOf(t, id) ==
    IF id = <<0, 0>>
    THEN Segment(t.scan.previous, <<t.scan.seg_start, t.scan.seg_count>>, t.ns)
    ELSE Segment(t.scan.records[id[1]].shot,
                 t.scan.records[id[1]].segments[id[2]], t.ns)

\* the traces (from 0) that a segment covers
TracesIn(seg) == seg.first..(seg.first + seg.count - 1)

\* C31: at every step of the sequential scan, after k headers have been
\* consumed, the closed segments of all records and the open segment
\* (seg_start, seg_count) are pairwise disjoint, each starts at the offset of
\* a trace and covers traces of a single key, together they cover exactly
\* the traces 0..k-1, and the open segment ends at trace k-1; the closed
\* counts plus seg_count equal k.
C31_SegmentsPartitionConsumed ==
    (cfg.mode = "seq" /\ task[1].pc = "scan") =>
        LET t == task[1]
            k == Len(t.yielded)
            ids == SegmentIds(t)
        IN  /\ \A a, b \in ids :
                  a # b => TracesIn(SegmentOf(t, a)) \cap TracesIn(SegmentOf(t, b)) = {}
            /\ \A a \in ids :
                  LET seg == SegmentOf(t, a)
                  IN  /\ seg.count >= 1
                      /\ seg.offset = TraceOffset(files[1], seg.first + 1)
                      /\ \A x \in TracesIn(seg) :
                            /\ x + 1 \in 1..NTraces(files[1])
                            /\ KeyAt(files[1], x + 1) = seg.key
            /\ UNION {TracesIn(SegmentOf(t, a)) : a \in ids} = 0..(k - 1)
            /\ (t.scan.previous = None) <=> (k = 0)
            /\ k > 0 => t.scan.seg_start = TraceOffset(files[1], k - t.scan.seg_count + 1)
            /\ SumRecordCounts(t.scan.records) + t.scan.seg_count = k

\* three headers consumed across two chunks: a closed segment of one trace
\* and an open segment of two
C31_Witness ==
    /\ cfg.mode = "seq"
    /\ task[1].pc = "scan"
    /\ cfg.chunk = 2
    /\ Len(task[1].yielded) = 3
    /\ task[1].remaining = 0
    /\ Cardinality(ClosedSegments(task[1])) = 1
    /\ task[1].scan.seg_count = 2
    /\ task[1].scan.seg_start = TraceOffset(files[1], 2)

\* every way of scanning: segy_scan on a file or a directory, and _scan_file
NextScans == Next \/ NextSeq

SpecScans == (InitFile \/ InitDir \/ InitSeq) /\ [][NextScans]_vars

\* SegyScan.offsets: segments[0][0] of each record
offsets(scan) == [r \in 1..Len(scan.records) |-> scan.records[r].segments[1][1]]

\* the files with no whole trace
TraceLess == {f \in Files : HeaderReadable(files[f]) /\ TotalTraces(files[f]) = 0}

\* C32: every record of a catalog returned by a scan, sequential or
\* concurrent, has at least one segment and every segment has count >= 1, so
\* offsets is defined for every record; a file with zero traces contributes
\* no record.
C32_RecordsHaveSegments ==
    Returned =>
        /\ \A r \in 1..Len(Catalog) :
              /\ Len(Catalog[r].segments) >= 1
              /\ \A j \in 1..Len(Catalog[r].segments) : Catalog[r].segments[j][2] >= 1
              /\ offsets(outcome.scan)[r] >= FileHeaderBytes
              /\ \E f \in Files : Catalog[r].path = files[f].path /\ f \notin TraceLess
        /\ (\A f \in Files : f \in TraceLess) => Catalog = <<>>

\* a concurrent scan returned a record whose only segment was still open after
\* the last header, next to a record with a closed segment
C32_Witness ==
    /\ Returned
    /\ cfg.mode = "file"
    /\ Len(Catalog) = 2
    /\ Len(task[1].yielded) = 3
    /\ \E r \in 1..2 : Catalog[r].segments = <<<<task[1].scan.seg_start, task[1].scan.seg_count>>>>
    /\ \A r \in 1..2 : Len(Catalog[r].segments) = 1

\* a header with no trace behind it was scanned: the catalog is empty
C32_WitnessNoTraces ==
    /\ Returned
    /\ TraceLess = {1}
    /\ Catalog = <<>>

(***************************************************************************)
(* The header iterators under fair scheduling: the loop of an iterator     *)
(* runs on, and every parse handed to the executor completes, so a step    *)
(* that stays possible is taken.                                           *)
(***************************************************************************)
NextIter == NextFile \/ NextSeq

\* the iterators always decode the three shot fields; the extra keys of the
\* caller change the decoded headers only, so no extra key is requested
InitIter == (InitFile \/ InitSeq) /\ cfg.keys = {}

SpecIter == InitIter /\ [][NextIter]_vars /\ WF_vars(NextIter)

\* the offsets 3600 + i * (240 + 4 * ns) of the traces i = 0..N-1
TraceOffsets(file) == {TraceOffset(file, i + 1) : i \in 0..(NTraces(file) - 1)}

Iterating == task[1].pc = "scan"

\* the iterator has left its loop
Exhausted == task[1].pc \in {"finished", "collected"} \/ (Iterating /\ task[1].remaining = 0)

YieldedSoFar ==
    LET t == task[1]
    IN  /\ \A a, b \in 1..Len(t.yielded) : a # b => t.yielded[a] # t.yielded[b]
        /\ \A a \in 1..Len(t.yielded) : t.yielded[a] \in TraceOffsets(files[1])
        /\ t.n <= cfg.chunk
        /\ t.pending \subseteq 0..(t.n - 1)
        /\ t.remaining >= 0
        /\ Len(t.yielded) = NTraces(files[1]) - t.remaining + (t.n - Cardinality(t.pending))
        /\ Exhausted =>
              /\ Len(t.yielded) = NTraces(files[1])
              /\ {t.yielded[a] : a \in 1..Len(t.yielded)} = TraceOffsets(files[1])

RemainingDecreases ==
    (Iterating /\ Iterating') =>
        /\ task[1].remaining' <= task[1].remaining
        /\ task[1].pos' # task[1].pos =>
              /\ task[1].remaining' = task[1].remaining - task[1].n
              /\ task[1].remaining' < task[1].remaining
              /\ task[1].pos' = task[1].pos + task[1].n * trace_size(task[1].ns)

\* C33: for a file with N traces, chunk >= 1 and workers >= 1 both header
\* iterators terminate after yielding exactly N pairs, each trace index
\* i in 0..N-1 exactly once with offset 3600 + i * (240 + 4 * ns); remaining
\* strictly decreases with every chunk and reaches 0, and no chunk holds
\* more than chunk headers.
C33_IteratorsYieldEveryTraceOnce ==
    /\ [](task[1].pc \in {"scan", "finished", "collected"} => YieldedSoFar)
    /\ [][RemainingDecreases]_vars
    /\ <>(task[1].pc = "failed" \/ Exhausted)

\* the concurrent iterator is exhausted after two chunks, having yielded the
\* three traces with the second one first
C33_Witness ==
    /\ cfg.mode = "file"
    /\ cfg.chunk = 2
    /\ Iterating
    /\ task[1].remaining = 0
    /\ Len(task[1].yielded) = 3
    /\ task[1].yielded[1] = TraceOffset(files[1], 2)
    /\ task[1].yielded[2] = TraceOffset(files[1], 1)
    /\ task[1].yielded[3] = TraceOffset(files[1], 3)

\* the catalog of the same file scanned with chunk size c when the headers of
\* a chunk are consumed in file order; with c = 1 a chunk holds one header
\* and no other order exists
ScanWithChunk(c) == _scan_file(files[1], cfg.keys, c)

\* with chunk = 1 the concurrent scan returns the catalog of the headers
\* taken in file order, and the sequential scan returns the same catalog for
\* every chunk size
ChunkOneIsFileOrder ==
    (Returned /\ cfg.mode \in {"file", "seq"} /\ (cfg.chunk = 1 \/ cfg.mode = "seq")) =>
        \A c \in 1..MaxChunk : outcome.scan = ScanWithChunk(c)

\* C34: the catalog returned by scanning a file does not depend on the chunk
\* size: the scan returns the records, segments and summaries that the scan
\* of the same file with any other chunk size returns, in particular those
\* of chunk size 1.
C34_CatalogIndependentOfChunk ==
    (Returned /\ cfg.mode = "file") => outcome.scan = ScanWithChunk(1)

(***************************************************************************)
(* read_fileheader on a handle that the caller has positioned.  The state  *)
(* of the handle is its position, f.tell().                                *)
(***************************************************************************)
\* the position after f.read(n) at pos on a file of `size` bytes
AfterRead(pos, n, size) == IF pos >= size THEN pos ELSE Min(pos + n, size)

\* read_fileheader that does not seek back
read_fileheader_at_NoRestore(bytes, keys, bigendian, pos) ==
    LET sought == 0
        afterRead == AfterRead(sought, FileHeaderBytes, Len(bytes))
        r == read_fileheader_keys(bytes, keys, bigendian)
    IN  [result |-> r, pos |-> afterRead]

\* read_fileheader(f, keys, bigendian) with f at pos: start = f.tell(),
\* f.seek(0), f.read(3600), the decoding loop, f.seek(start).  An exception
\* of the loop leaves the function before f.seek(start)
read_fileheader_at(bytes, keys, bigendian, pos) ==
    LET start == pos
        sought == 0
        afterRead == AfterRead(sought, FileHeaderBytes, Len(bytes))
        r == read_fileheader_keys(bytes, keys, bigendian)
    IN  [result |-> r, pos |-> IF r = StructError THEN afterRead ELSE start]

\* files for positioned reads: the header buffers and a file with one trace
\* header behind the file header
SeekBuffers ==
    HeaderBuffers \cup {[i \in 1..(FileHeaderBytes + TraceHeaderBytes) |-> 1 + (i % 2)]}

\* positions of the handle before the call: the start, inside the text, the
\* start of the binary block, the first trace, the end of the longest file
\* and beyond every file
StartPositions ==
    {0, 1, TextHeaderBytes, FileHeaderBytes, FileHeaderBytes + TraceHeaderBytes,
     2 * FileHeaderBytes}

InitSeek ==
    /\ task = <<>>
    /\ scans = <<>>
    /\ outcome = Running
    /\ handles = {}
    /\ \E b \in SeekBuffers, keys \in FHKeySets, o \in BOOLEAN, p \in StartPositions :
          /\ files = <<b>>
          /\ cfg = [mode |-> "handle", keys |-> keys, bigendian |-> o, start |-> p]
          /\ call = [pos |-> p]

ReadFileHeaderAt ==
    /\ cfg.mode = "handle"
    /\ outcome = Running
    /\ LET r == read_fileheader_at(files[1], cfg.keys, cfg.bigendian, call.pos)
       IN  /\ outcome' = Decoded(r.result)
           /\ call' = [pos |-> r.pos]
    /\ UNCHANGED <<files, cfg, task, scans, handles>>

NextSeek == ReadFileHeaderAt

SpecSeek == InitSeek /\ [][NextSeek]_vars

\* C35 as stated: read_fileheader leaves the position of the handle exactly
\* where it was before the call, whatever that position was.
C35_PositionUnchanged ==
    (cfg.mode = "handle" /\ Done) => call.pos = cfg.start

\* C35, amended: when read_fileheader returns, the position of the handle is
\* what it was before the call, whatever it was, and the text returned is
\* bytes [0,3200) of the file; when it raises because a requested field lies
\* beyond the end of the file, the position is left behind the bytes read
\* from offset 0, at min(3600, size of the file).
C35_PositionRestoredOnReturn ==
    (cfg.mode = "handle" /\ Done) =>
        /\ outcome.status = "ok" =>
              /\ call.pos = cfg.start
              /\ outcome.value.th = Slice(files[1], 0, TextHeaderBytes)
        /\ outcome.status # "ok" =>
              /\ Len(files[1]) < FH_END
              /\ call.pos = Min(FileHeaderBytes, Len(files[1]))

\* a call with the handle on the first trace of a file returned with the
\* handle still there
C35_Witness ==
    /\ cfg.mode = "handle"
    /\ Done
    /\ outcome.status = "ok"
    /\ cfg.keys = FH_KEYS
    /\ Len(files[1]) = FileHeaderBytes + TraceHeaderBytes
    /\ cfg.start = FileHeaderBytes
    /\ call.pos = FileHeaderBytes


=============================================================================
